---- MODULE Spec2Model ----
(***************************************************************************)
(* State-machine model of the pyeosim sensor simulation pipeline:          *)
(* GenericTransformer (pyeosim/_pipeline.py) and its subclass TdiCmos      *)
(* (pyeosim/imager.py).                                                    *)
(*                                                                         *)
(* Modelling conventions                                                   *)
(*  - A Signal (xarray.DataArray) is a record: its dimension names in      *)
(*    order (dims), its non-dimension coordinate names (coords), its       *)
(*    metadata dictionary (attrs) and its value.  The value is symbolic:   *)
(*    hist is the sequence of stage functions applied so far, each with    *)
(*    the parameters it was called with and the random samples it drew.    *)
(*  - numpy's process-wide random generator is the counter rng: the n-th   *)
(*    array sampled from it is the sample with identity n.  Two samples    *)
(*    of a continuous distribution are equal iff they are the same draw.   *)
(*  - Real-valued configuration values are integers in scaled units        *)
(*    (lens_diameter and sensor_width in mm/10, voltages in mV, noise      *)
(*    factors in 1e-3).                                                    *)
(*  - A raised Python exception is the name of its class in the field      *)
(*    err; "" means the call returned.                                     *)
(***************************************************************************)
EXTENDS Integers, Sequences, FiniteSets, TLC

VARIABLES
    cfg,                \* constructor arguments kept as instance attributes
    derived,            \* attributes computed by update_derived_params
    PRNU,               \* self.PRNU
    DSNU,               \* self.DSNU
    column_offset_FPN,  \* self.column_offset_FPN
    steps,              \* self.steps
    step_outputs,       \* self.step_outputs
    fitted,             \* self._fitted
    rng,                \* numpy.random global state: samples drawn so far
    last,               \* the most recent call: its arguments and outcome
    reflectance,        \* the CmosReflectance instance wrapping the sensor
    inflight            \* transform calls in flight: position and locals

vars == <<cfg, derived, PRNU, DSNU, column_offset_FPN, steps, step_outputs,
          fitted, rng, last, reflectance, inflight>>

\* Number of arrays that may be sampled from the random generator in a run.
MaxDraws == 7

-----------------------------------------------------------------------------
(* Values *)

\* The three shapes an FPN attribute takes: None, the number 0, an array.
None == [kind |-> "None", id |-> 0]
Zero == [kind |-> "zero", id |-> 0]
Sample(n) == [kind |-> "array", id |-> n]

\* Exact quotient n/d in lowest terms.
RECURSIVE GCD(_, _)
GCD(a, b) == IF b = 0 THEN a ELSE GCD(b, a % b)
Quot(n, d) == [num |-> n \div GCD(n, d), den |-> d \div GCD(n, d)]

\* Metadata dictionaries are functions from keys to values.
EmptyAttrs == [k \in {} |-> 0]
EmptyDict == [k \in {} |-> 0]
AttrStr(s) == [kind |-> "str", s |-> s, json |-> EmptyDict]
AttrJson(p) == [kind |-> "json", s |-> "", json |-> p]
SetItem(d, k, v) == [x \in (DOMAIN d) \cup {k} |-> IF x = k THEN v ELSE d[x]]

NoSignal == [dims |-> <<>>, coords |-> {}, attrs |-> EmptyAttrs, hist |-> <<>>]
NoKey == [kind |-> "none", s |-> "", i |-> 0]
StrKey(s) == [kind |-> "str", s |-> s, i |-> 0]
IntKey(i) == [kind |-> "int", s |-> "", i |-> i]

\* Every name a signal can be indexed by: dimensions and coordinates.
Names(signal) == {signal.dims[i] : i \in DOMAIN signal.dims} \cup signal.coords
Dims(signal) == {signal.dims[i] : i \in DOMAIN signal.dims}

\* '{}_sensor_simulation'.format(self.__class__.__name__)
ProvenanceKey == "TdiCmos_sensor_simulation"

\* The two exceptions GenericTransformer.transform raises itself.
AxisMissing == "ValueError('x or y coordinate missing')"
NotFitted == "RuntimeError('Transformer Instance not fitted')"

-----------------------------------------------------------------------------
(* Input signals *)

\* The signals the caller passes to fit, transform and fit_transform: a
\* band image, one with an extra leading axis and metadata (among it an
\* earlier provenance entry), and signals lacking y, x, band or the
\* wavelength coordinate.
InputSignals ==
    { [dims |-> <<"band", "y", "x">>, coords |-> {"wavelength"},
       attrs |-> EmptyAttrs, hist |-> <<>>],
      [dims |-> <<"repeat", "x", "band", "y">>, coords |-> {"wavelength"},
       attrs |-> [k \in {"res", ProvenanceKey} |-> AttrStr("earlier")],
       hist |-> <<>>],
      [dims |-> <<"band", "x">>, coords |-> {"wavelength"},
       attrs |-> [k \in {"res"} |-> AttrStr("2m")], hist |-> <<>>],
      [dims |-> <<"band", "y">>, coords |-> {"wavelength"},
       attrs |-> EmptyAttrs, hist |-> <<>>],
      [dims |-> <<"y", "x">>, coords |-> {"wavelength"},
       attrs |-> [k \in {"res"} |-> AttrStr("2m")], hist |-> <<>>],
      [dims |-> <<"y", "x", "band">>, coords |-> {},
       attrs |-> EmptyAttrs, hist |-> <<>>] }

\* The signals passed to apply_step: an image, and a spectrum without
\* spatial axes.
StepSignals ==
    { [dims |-> <<"band", "y", "x">>, coords |-> {"wavelength"},
       attrs |-> [k \in {"res"} |-> AttrStr("2m")], hist |-> <<>>],
      [dims |-> <<"band">>, coords |-> {"wavelength"},
       attrs |-> EmptyAttrs, hist |-> <<>>] }

-----------------------------------------------------------------------------
(* TdiCmos.__init__ and update_derived_params *)

\* The constructor's arguments; the noise factors and the two simulation
\* switches are chosen by the caller, the others keep their default.
InitArgs(prnu_factor, dark_factor, offset_factor, store, spatial) ==
    [sensor_altitude |-> 500000, sensor_ground_speed |-> 7000,
     ground_sample_distance |-> 2, lens_diameter |-> 100, psf_fwhm |-> 4,
     TDI_rows |-> 32, pix_per_row |-> 8000, sensor_width |-> 822,
     pixel_area |-> 100, quantum_efficiency |-> "TDI_QE_BACK",
     full_well |-> 30000, prnu_factor |-> prnu_factor, dark_current |-> 570,
     dark_factor |-> dark_factor, offset_factor |-> offset_factor,
     ccd_vref |-> 3100, sense_node_gain |-> 5, read_noise |-> 20,
     adc_vref |-> 500, bit_depth |-> 14,
     store_steps |-> store, apply_spatial_resampling |-> spatial]

\* TDI_rows / (sensor_ground_speed / ground_sample_distance)
_integration_time(c) ==
    Quot(c.TDI_rows * c.ground_sample_distance, c.sensor_ground_speed)

\* The derived attributes as update_derived_params computes them from the
\* configuration c.  arctan2, tan and sqrt stay uninterpreted: afov,
\* pix_width and focal_length are the terms of their arguments.
DerivedParams(c) ==
    LET swath_width == c.ground_sample_distance * c.pix_per_row
        afov == [arctan2_y |-> swath_width, arctan2_x |-> c.sensor_altitude]
    IN  [integration_time |-> _integration_time(c),
         Q_E |-> [band_QE |-> c.quantum_efficiency],
         _dark_current |-> c.dark_current * c.TDI_rows,
         swath_width |-> swath_width,
         afov |-> afov,
         pix_width |-> [sqrt |-> c.pixel_area],
         focal_length |-> [sensor_width |-> c.sensor_width, tan |-> afov],
         _sense_node_gain |-> Quot(c.sense_node_gain, 1000000)]

Stage(name, fn, params) == [name |-> name, fn |-> fn, params |-> params]
NoParams == [none |-> TRUE]

\* list.insert(i, x) for a 0-based position i inside the list.
Insert(seq, i, x) == SubSeq(seq, 1, i) \o <<x>> \o SubSeq(seq, i + 1, Len(seq))

\* The stage list _set_steps assigns to self.steps, read from the instance s.
_set_steps(s) ==
    LET base == <<
          Stage("radiant energy to radiant flux", "energy_to_quantity", NoParams),
          Stage("radiant flux to flux density", "radiance_to_irradiance_2",
                [lens_diameter |-> s.cfg.lens_diameter,
                 focal_length |-> s.derived.focal_length]),
          Stage("flux density to flux", "photon_mean",
                [pixel_area |-> s.cfg.pixel_area,
                 integration_time |-> s.derived.integration_time]),
          Stage("add photon shot noise", "add_photon_noise", NoParams),
          Stage("photon to electron", "photon_to_electron",
                [Q_E |-> s.derived.Q_E]),
          Stage("add photo response non-uniformity", "add_prnu",
                [prnu |-> s.PRNU]),
          Stage("add dark signal", "add_dark_signal",
                [dark_current |-> s.derived._dark_current,
                 integration_time |-> s.derived.integration_time,
                 dsnu |-> s.DSNU]),
          Stage("electron to voltage", "electron_to_voltage",
                [v_ref |-> s.cfg.ccd_vref,
                 sense_node_gain |-> s.derived._sense_node_gain,
                 full_well |-> s.cfg.full_well,
                 read_noise |-> s.cfg.read_noise]),
          Stage("add column offset noise", "add_column_offset",
                [offset |-> s.column_offset_FPN]),
          Stage("voltage to DN", "voltage_to_DN",
                [v_ref |-> s.cfg.adc_vref, bit_depth |-> s.cfg.bit_depth]) >>
    IN  IF s.cfg.apply_spatial_resampling
        THEN Insert(base, 1,
                    Stage("apply spatial resampling", "gaussian_isotropic",
                          [psf_fwhm |-> s.cfg.psf_fwhm,
                           ground_sample_distance |->
                               s.cfg.ground_sample_distance]))
        ELSE base

\* GenericTransformer.get_steps: the stage names in list order.
get_steps(s) == [i \in DOMAIN s.steps |-> s.steps[i].name]

\* Transpose as it would be if it put x before y.
Transpose_xy(signal) ==
    [signal EXCEPT !.dims =
        <<"x", "y">> \o SelectSeq(signal.dims, LAMBDA d : d \notin {"x", "y"})]

\* signal.transpose('y', 'x', ...): y, x, then the other dimensions in
\* their original relative order; ValueError when x or y is no dimension.
Transposable(signal) == {"x", "y"} \subseteq Dims(signal)
Transpose(signal) ==
    [signal EXCEPT !.dims =
        <<"y", "x">> \o SelectSeq(signal.dims, LAMBDA d : d \notin {"x", "y"})]

-----------------------------------------------------------------------------
(* Stage functions (pyeosim/imager.py) *)

Ret(signal, r) == [err |-> "", out |-> signal, rng |-> r]
Raise(e, r) == [err |-> e, out |-> NoSignal, rng |-> r]

\* The value of a stage's result: the input's value with this application
\* recorded, and the dimensions kept.  Arithmetic on a DataArray returns an
\* array without the operand's attrs.
Applied(signal, fn, params, draws) ==
    [dims |-> signal.dims, coords |-> signal.coords, attrs |-> EmptyAttrs,
     hist |-> Append(signal.hist,
                     [fn |-> fn, params |-> params, draws |-> draws])]
\* Stages that copy the input array and replace its data keep the attrs.
AppliedKeepAttrs(signal, fn, params, draws) ==
    [Applied(signal, fn, params, draws) EXCEPT !.attrs = signal.attrs]

\* (lambda_/hc) * energy, lambda_ read from the coordinate energy.wavelength
energy_to_quantity(energy, params, r) ==
    IF "wavelength" \in Names(energy)
    THEN Ret(Applied(energy, "energy_to_quantity", params, <<>>), r)
    ELSE Raise("AttributeError", r)

\* decorators.spatial_response checks the coordinates, then the filter is
\* applied to the array transposed to ('y', 'x', ...).
gaussian_isotropic(signal, params, r) ==
    IF {"x", "y"} \subseteq Names(signal)
    THEN IF Transposable(signal)
         THEN Ret(AppliedKeepAttrs(Transpose(signal), "gaussian_isotropic",
                                   params, <<>>), r)
         ELSE Raise("ValueError", r)
    ELSE Raise("AttributeError", r)

radiance_to_irradiance_2(radiance, params, r) ==
    Ret(Applied(radiance, "radiance_to_irradiance_2", params, <<>>), r)

photon_mean(flux, params, r) ==
    Ret(Applied(flux, "photon_mean", params, <<>>), r)

\* numpy.random.poisson(ar): one array sampled at every call
add_photon_noise(photon_count, params, r) ==
    Ret(AppliedKeepAttrs(photon_count, "add_photon_noise", params,
                         <<r + 1>>), r + 1)

photon_to_electron(photon_count, params, r) ==
    Ret(Applied(photon_count, "photon_to_electron", params, <<>>), r)

\* electrons + electrons * prnu; None cannot be multiplied
add_prnu(electrons, params, r) ==
    IF params.prnu = None
    THEN Raise("TypeError", r)
    ELSE Ret(Applied(electrons, "add_prnu", params, <<>>), r)

\* add_dark_signal as it would be if the dark shot noise were the array
\* sampled at fit time and kept with the fixed pattern.
add_dark_signal_at_fit(electrons, params, r) ==
    IF params.dsnu = None
    THEN Raise("TypeError", r)
    ELSE Ret(Applied(electrons, "add_dark_signal", params,
                     <<params.dsnu.id>>), r)

\* numpy.random.poisson(n_dsig, ...) is sampled first, then multiplied by dsnu
add_dark_signal(electrons, params, r) ==
    IF params.dsnu = None
    THEN Raise("TypeError", r + 1)
    ELSE Ret(Applied(electrons, "add_dark_signal", params, <<r + 1>>), r + 1)

\* truncation at full_well, then add_gaussian_noise samples the read noise
electron_to_voltage(electron_count, params, r) ==
    Ret(Applied(electron_count, "electron_to_voltage", params, <<r + 1>>),
        r + 1)

\* voltage + offset
add_column_offset(voltage, params, r) ==
    IF params.offset = None
    THEN Raise("TypeError", r)
    ELSE Ret(Applied(voltage, "add_column_offset", params, <<>>), r)

voltage_to_DN(voltage, params, r) ==
    Ret(Applied(voltage, "voltage_to_DN", params, <<>>), r)

\* signal.pipe(step[1], **step[2])
Pipe(signal, step, r) ==
    CASE step.fn = "energy_to_quantity" ->
            energy_to_quantity(signal, step.params, r)
      [] step.fn = "gaussian_isotropic" ->
            gaussian_isotropic(signal, step.params, r)
      [] step.fn = "radiance_to_irradiance_2" ->
            radiance_to_irradiance_2(signal, step.params, r)
      [] step.fn = "photon_mean" -> photon_mean(signal, step.params, r)
      [] step.fn = "add_photon_noise" ->
            add_photon_noise(signal, step.params, r)
      [] step.fn = "photon_to_electron" ->
            photon_to_electron(signal, step.params, r)
      [] step.fn = "add_prnu" -> add_prnu(signal, step.params, r)
      [] step.fn = "add_dark_signal" ->
            add_dark_signal(signal, step.params, r)
      [] step.fn = "electron_to_voltage" ->
            electron_to_voltage(signal, step.params, r)
      [] step.fn = "add_column_offset" ->
            add_column_offset(signal, step.params, r)
      [] step.fn = "voltage_to_DN" -> voltage_to_DN(signal, step.params, r)

\* The functions that sample from the random generator when called.
StochasticFns == {"add_photon_noise", "add_dark_signal", "electron_to_voltage"}

-----------------------------------------------------------------------------
(* GenericTransformer (pyeosim/_pipeline.py) *)

\* The instance as one record, so that methods can be composed.
Self == [cfg |-> cfg, derived |-> derived, PRNU |-> PRNU, DSNU |-> DSNU,
         column_offset_FPN |-> column_offset_FPN, steps |-> steps,
         step_outputs |-> step_outputs, fitted |-> fitted]

\* json.dumps of one attribute value: a number is written as it is, None as
\* null, and an array goes through default= and becomes '<Not stored>'.
JsonFPN(v) ==
    CASE v.kind = "None" -> "null"
      [] v.kind = "zero" -> "0"
      [] v.kind = "array" -> "<Not stored>"

\* get_params(): the instance's __dict__ without steps, step_outputs and
\* store_steps, as json.dumps(..., default=...) serialises it.
get_params(s) ==
    [cfg |-> [k \in (DOMAIN s.cfg) \ {"store_steps"} |-> s.cfg[k]],
     derived |-> s.derived,
     PRNU |-> JsonFPN(s.PRNU), DSNU |-> JsonFPN(s.DSNU),
     column_offset_FPN |-> JsonFPN(s.column_offset_FPN),
     _fitted |-> s.fitted]

\* One stage execution: the stage, the signal piped into it and the signal
\* it returned (NoSignal when it raised).
Executed(step, inp, out) == [stage |-> step.name, inp |-> inp, out |-> out]

\* StoreLoop as it would be if it copied the signal piped into a stage,
\* not the stage's output, into step_outputs.
RECURSIVE StoreLoop_input(_, _, _, _, _, _)
StoreLoop_input(stps, i, signal, r, outs, trace) ==
    IF i > Len(stps)
    THEN [err |-> "", out |-> signal, rng |-> r, step_outputs |-> outs,
          trace |-> trace]
    ELSE LET a == Pipe(signal, stps[i], r)
         IN  IF a.err # ""
             THEN [err |-> a.err, out |-> NoSignal, rng |-> a.rng,
                   step_outputs |-> outs,
                   trace |-> Append(trace, Executed(stps[i], signal, NoSignal))]
             ELSE StoreLoop_input(stps, i + 1, a.out, a.rng,
                                  SetItem(outs, stps[i].name, signal),
                                  Append(trace, Executed(stps[i], signal, a.out)))

\* The loop of the store_steps branch: each stage's computed output is the
\* next stage's input and is copied into step_outputs under the stage name.
RECURSIVE StoreLoop(_, _, _, _, _, _)
StoreLoop(stps, i, signal, r, outs, trace) ==
    IF i > Len(stps)
    THEN [err |-> "", out |-> signal, rng |-> r, step_outputs |-> outs,
          trace |-> trace]
    ELSE LET a == Pipe(signal, stps[i], r)
         IN  IF a.err # ""
             THEN [err |-> a.err, out |-> NoSignal, rng |-> a.rng,
                   step_outputs |-> outs,
                   trace |-> Append(trace, Executed(stps[i], signal, NoSignal))]
             ELSE StoreLoop(stps, i + 1, a.out, a.rng,
                            SetItem(outs, stps[i].name, a.out),
                            Append(trace, Executed(stps[i], signal, a.out)))

\* The loop of the other branch: the stages are chained and the result is
\* computed once at the end; step_outputs is not touched.
RECURSIVE PlainLoop(_, _, _, _, _, _)
PlainLoop(stps, i, signal, r, outs, trace) ==
    IF i > Len(stps)
    THEN [err |-> "", out |-> signal, rng |-> r, step_outputs |-> outs,
          trace |-> trace]
    ELSE LET a == Pipe(signal, stps[i], r)
         IN  IF a.err # ""
             THEN [err |-> a.err, out |-> NoSignal, rng |-> a.rng,
                   step_outputs |-> outs,
                   trace |-> Append(trace, Executed(stps[i], signal, NoSignal))]
             ELSE PlainLoop(stps, i + 1, a.out, a.rng, outs,
                            Append(trace, Executed(stps[i], signal, a.out)))

\* The result of a method call: the instance after it, the generator after
\* it, the exception raised (or ""), the value returned, the stages run.
Result(s, r, err, out, trace) ==
    [self |-> s, rng |-> r, err |-> err, out |-> out, trace |-> trace]

\* Stamp as it would be if the entry were added to the attrs of the last
\* stage's output.
Stamp_on_output(meta, out, params) ==
    [out EXCEPT !.attrs = SetItem(out.attrs, ProvenanceKey, AttrJson(params))]

\* meta[k] = json.dumps(self.get_params(), ...); _signal.attrs = meta
Stamp(meta, out, params) ==
    [out EXCEPT !.attrs = SetItem(meta, ProvenanceKey, AttrJson(params))]

\* _apply_steps as it would be if it walked the stage list backwards.
_apply_steps_reversed(s, signal, r) ==
    LET meta == signal.attrs
        n == Len(s.steps)
        rev == [i \in 1..n |-> s.steps[n + 1 - i]]
        run == IF s.cfg.store_steps
               THEN StoreLoop(rev, 1, signal, r, s.step_outputs, <<>>)
               ELSE PlainLoop(rev, 1, signal, r, s.step_outputs, <<>>)
        after == [s EXCEPT !.step_outputs = run.step_outputs]
    IN  IF run.err # ""
        THEN Result(after, run.rng, run.err, NoSignal, run.trace)
        ELSE Result(after, run.rng, "",
                    Stamp(meta, run.out, get_params(after)), run.trace)

\* _apply_steps(signal): the attrs are copied first, the stages are piped,
\* the entry is added to the copy and the copy becomes the result's attrs.
_apply_steps(s, signal, r) ==
    LET meta == signal.attrs
        run == IF s.cfg.store_steps
               THEN StoreLoop(s.steps, 1, signal, r, s.step_outputs, <<>>)
               ELSE PlainLoop(s.steps, 1, signal, r, s.step_outputs, <<>>)
        after == [s EXCEPT !.step_outputs = run.step_outputs]
    IN  IF run.err # ""
        THEN Result(after, run.rng, run.err, NoSignal, run.trace)
        ELSE Result(after, run.rng, "",
                    Stamp(meta, run.out, get_params(after)), run.trace)

\* transform as it would be if it regenerated a fixed pattern on every call.
transform_resampling(s, signal, r) ==
    IF ~Transposable(signal)
    THEN Result(s, r, AxisMissing, NoSignal, <<>>)
    ELSE IF s.fitted
         THEN LET s1 == [s EXCEPT !.column_offset_FPN =
                                     IF s.cfg.offset_factor = 0
                                     THEN Zero ELSE Sample(r + 1)]
                  r1 == IF s.cfg.offset_factor = 0 THEN r ELSE r + 1
              IN  _apply_steps([s1 EXCEPT !.steps = _set_steps(s1)],
                               Transpose(signal), r1)
         ELSE Result(s, r, NotFitted, NoSignal, <<>>)

transform(s, signal, r) ==
    IF ~Transposable(signal)
    THEN Result(s, r, AxisMissing, NoSignal, <<>>)
    ELSE IF s.fitted
         THEN _apply_steps(s, Transpose(signal), r)
         ELSE Result(s, r, NotFitted, NoSignal, <<>>)

\* steps is a list: a string subscript raises TypeError, an integer one
\* selects by position.
apply_step(s, signal, step_name, r) ==
    IF step_name.kind # "int"
    THEN Result(s, r, "TypeError", NoSignal, <<>>)
    ELSE IF step_name.i >= Len(s.steps)
         THEN Result(s, r, "IndexError", NoSignal, <<>>)
         ELSE LET step == s.steps[step_name.i + 1]
                  a == Pipe(signal, step, r)
              IN  IF a.err # ""
                  THEN Result(s, a.rng, a.err, NoSignal,
                              <<Executed(step, signal, NoSignal)>>)
                  ELSE Result(s, a.rng, "", a.out,
                              <<Executed(step, signal, a.out)>>)

-----------------------------------------------------------------------------
(* TdiCmos (pyeosim/imager.py) *)

\* _make_ones(signal).isel(y=0): the first element of every dimension other
\* than x, y, band is taken; the spatial resampling (when switched on) needs
\* x and y; isel(y=0) needs the dimension y.  The result is the dimensions
\* of the ones array, or the exception raised.
_make_ones(s, signal) ==
    LET kept == [signal EXCEPT !.dims =
                    SelectSeq(signal.dims,
                              LAMBDA d : d \in {"x", "y", "band"})]
        g == IF s.cfg.apply_spatial_resampling
             THEN gaussian_isotropic(kept, NoParams, 0)
             ELSE Ret(kept, 0)
    IN  IF g.err # ""
        THEN [err |-> g.err, dims |-> <<>>]
        ELSE IF "y" \notin Dims(g.out)
             THEN [err |-> "ValueError", dims |-> <<>>]
             ELSE [err |-> "",
                   dims |-> SelectSeq(g.out.dims, LAMBDA d : d # "y")]

\* update_derived_params as it would be if it left the stage list alone.
update_derived_params_no_rebuild(s) ==
    [s EXCEPT !.derived = DerivedParams(s.cfg)]

\* update_derived_params(): every derived attribute is recomputed from the
\* configuration and the stage list is rebuilt.
update_derived_params(s) ==
    LET d == [s EXCEPT !.derived = DerivedParams(s.cfg)]
    IN  [d EXCEPT !.steps = _set_steps(d)]

\* NewFPN as it would be if the generator were re-seeded before sampling.
NewFPN_seeded(factor, r) == IF factor = 0 THEN Zero ELSE Sample(1)

\* One fixed pattern as fit assigns it: the number 0 when its factor is 0,
\* else the array DSNU / PRNU / CONU samples, which is draw number r.
NewFPN(factor, r) == IF factor = 0 THEN Zero ELSE Sample(r)

\* fit as it would be if it did not rebuild the stage list at its end.
fit_stale_steps(s, signal, r) ==
    LET ones == _make_ones(s, signal)
        r1 == IF s.cfg.dark_factor = 0 THEN r ELSE r + 1
        s1 == [s EXCEPT !.DSNU = NewFPN(s.cfg.dark_factor, r1)]
        r2 == IF s.cfg.prnu_factor = 0 THEN r1 ELSE r1 + 1
        s2 == [s1 EXCEPT !.PRNU = NewFPN(s.cfg.prnu_factor, r2)]
        r3 == IF s.cfg.offset_factor = 0 THEN r2 ELSE r2 + 1
        s3 == [s2 EXCEPT !.column_offset_FPN =
                            NewFPN(s.cfg.offset_factor, r3)]
    IN  IF ones.err # ""
        THEN Result(s, r, ones.err, NoSignal, <<>>)
        ELSE IF s.cfg.offset_factor # 0
                /\ "band" \notin {ones.dims[i] : i \in DOMAIN ones.dims}
             THEN Result(s2, r2, "ValueError", NoSignal, <<>>)
             ELSE Result([s3 EXCEPT !.fitted = TRUE], r3, "", NoSignal, <<>>)

\* fit(signal).  The three patterns are assigned in the order DSNU, PRNU,
\* column offset; a factor of 0 gives the number 0 and samples nothing.
\* CONU indexes ones.isel(band=0) before it samples, and raises ValueError
\* when ones has no band dimension.
fit(s, signal, r) ==
    LET ones == _make_ones(s, signal)
        r1 == IF s.cfg.dark_factor = 0 THEN r ELSE r + 1
        s1 == [s EXCEPT !.DSNU = NewFPN(s.cfg.dark_factor, r1)]
        r2 == IF s.cfg.prnu_factor = 0 THEN r1 ELSE r1 + 1
        s2 == [s1 EXCEPT !.PRNU = NewFPN(s.cfg.prnu_factor, r2)]
        r3 == IF s.cfg.offset_factor = 0 THEN r2 ELSE r2 + 1
        s3 == [s2 EXCEPT !.column_offset_FPN =
                            NewFPN(s.cfg.offset_factor, r3)]
        s4 == [s3 EXCEPT !.steps = _set_steps(s3)]
    IN  IF ones.err # ""
        THEN Result(s, r, ones.err, NoSignal, <<>>)
        ELSE IF s.cfg.offset_factor # 0
                /\ "band" \notin {ones.dims[i] : i \in DOMAIN ones.dims}
             THEN Result(s2, r2, "ValueError", NoSignal, <<>>)
             ELSE Result([s4 EXCEPT !.fitted = TRUE], r3, "", NoSignal, <<>>)

\* fit_transform as it would be if it went on to transform after a failed fit.
fit_transform_unguarded(s, signal, r) ==
    LET f == fit(s, signal, r)
    IN  transform(f.self, signal, f.rng)

\* fit_transform(signal): self.fit(signal), then return self.transform(signal)
fit_transform(s, signal, r) ==
    LET f == fit(s, signal, r)
    IN  IF f.err # ""
        THEN f
        ELSE transform(f.self, signal, f.rng)

-----------------------------------------------------------------------------
(* The state machine *)

Call(op, signal, key, res) ==
    [op |-> op, arg |-> signal, key |-> key, err |-> res.err,
     out |-> res.out, trace |-> res.trace]

\* The instance and the generator become what the call left; the
\* CmosReflectance instance is not involved.
Commit(res) ==
    /\ cfg' = res.self.cfg
    /\ derived' = res.self.derived
    /\ PRNU' = res.self.PRNU
    /\ DSNU' = res.self.DSNU
    /\ column_offset_FPN' = res.self.column_offset_FPN
    /\ steps' = res.self.steps
    /\ step_outputs' = res.self.step_outputs
    /\ fitted' = res.self.fitted
    /\ rng' = res.rng
    /\ reflectance' = reflectance
    /\ inflight' = inflight

\* GenericTransformer.__init__ of a CmosReflectance: not fitted, no dark
\* sensor and no flat-field frame yet.
NoSensor == [none |-> TRUE]
NoReflectance ==
    [cls |-> "", fitted |-> FALSE, dark_cmos_sensor |-> NoSensor,
     ff_frame |-> None]

\* The transform calls that may be in flight at the same time, and a call
\* that has not been made: pc is the position in the stage list (0 before
\* the call, Len(steps) + 1 after the loop), meta and signal are the local
\* variables of _apply_steps, done tells that the call has ended, with the
\* exception err or the value out.
TransformCalls == {1, 2}
NotCalled ==
    [pc |-> 0, done |-> FALSE, arg |-> NoSignal, meta |-> EmptyAttrs,
     signal |-> NoSignal, err |-> "", out |-> NoSignal]

\* <<prnu_factor, dark_factor, offset_factor>> as passed to the constructor
FactorArgs == {<<10, 10, 1>>, <<0, 0, 0>>, <<10, 10, 0>>, <<0, 0, 1>>}
TDIRowsValues == {64}
BitDepthValues == {12}
StepKeys ==
    {StrKey(n) : n \in {"voltage to DN", "no such stage"}}
    \cup {IntKey(i) : i \in {1, 6, 11}}

\* sensor = TdiCmos(prnu_factor=..., dark_factor=..., offset_factor=...,
\*                  store_steps=..., apply_spatial_resampling=...)
Init ==
    \E f \in FactorArgs, store \in BOOLEAN, spatial \in BOOLEAN :
        LET c == InitArgs(f[1], f[2], f[3], store, spatial)
            s0 == [cfg |-> c, derived |-> DerivedParams(c), PRNU |-> None,
                   DSNU |-> None, column_offset_FPN |-> None, steps |-> <<>>,
                   step_outputs |-> EmptyDict, fitted |-> FALSE]
            s1 == update_derived_params(s0)
        IN  /\ cfg = s1.cfg
            /\ derived = s1.derived
            /\ PRNU = s1.PRNU
            /\ DSNU = s1.DSNU
            /\ column_offset_FPN = s1.column_offset_FPN
            /\ steps = s1.steps
            /\ step_outputs = s1.step_outputs
            /\ fitted = s1.fitted
            /\ rng = 0
            /\ reflectance = NoReflectance
            /\ inflight = [call \in TransformCalls |-> NotCalled]
            /\ last = Call("__init__", NoSignal, NoKey,
                           Result(s1, 0, "", NoSignal, <<>>))

Fit ==
    \E signal \in InputSignals :
        /\ rng + 3 <= MaxDraws
        /\ \E res \in {fit(Self, signal, rng)} :
               Commit(res) /\ last' = Call("fit", signal, NoKey, res)

Transform ==
    \E signal \in InputSignals :
        /\ rng + 3 <= MaxDraws
        /\ \E res \in {transform(Self, signal, rng)} :
               Commit(res) /\ last' = Call("transform", signal, NoKey, res)

FitTransform ==
    \E signal \in InputSignals :
        /\ rng + 6 <= MaxDraws
        /\ \E res \in {fit_transform(Self, signal, rng)} :
               Commit(res) /\ last' = Call("fit_transform", signal, NoKey, res)

ApplyStep ==
    \E signal \in StepSignals, key \in StepKeys :
        /\ rng + 1 <= MaxDraws
        /\ \E res \in {apply_step(Self, signal, key, rng)} :
               Commit(res) /\ last' = Call("apply_step", signal, key, res)

\* sensor.TDI_rows = v: a configuration attribute is assigned by the caller.
SetTDIRows ==
    \E v \in TDIRowsValues :
        /\ v # cfg.TDI_rows
        /\ \E res \in {Result([Self EXCEPT !.cfg.TDI_rows = v], rng, "",
                                NoSignal, <<>>)} :
               Commit(res) /\ last' = Call("setattr", NoSignal, NoKey, res)

\* sensor.bit_depth = v: an attribute the stage list reads directly.
SetBitDepth ==
    \E v \in BitDepthValues :
        /\ v # cfg.bit_depth
        /\ \E res \in {Result([Self EXCEPT !.cfg.bit_depth = v], rng, "",
                                NoSignal, <<>>)} :
               Commit(res) /\ last' = Call("setattr", NoSignal, NoKey, res)

UpdateDerivedParams ==
    \E res \in {Result(update_derived_params(Self), rng, "", NoSignal, <<>>)} :
        Commit(res) /\ last' = Call("update_derived_params", NoSignal, NoKey, res)

Next ==
    \/ Fit
    \/ Transform
    \/ FitTransform
    \/ ApplyStep
    \/ SetTDIRows
    \/ SetBitDepth
    \/ UpdateDerivedParams

Spec == Init /\ [][Next]_vars

-----------------------------------------------------------------------------
(* Observations used by the properties *)

\* The parameters of the stage of stps (or the entry of a value's history)
\* that applies the function fn.
ParamsOf(stps, fn) == stps[CHOOSE i \in DOMAIN stps : stps[i].fn = fn].params

\* The fixed patterns a stage list (or a value's history) carries.
StepFPN(stps) ==
    [prnu |-> ParamsOf(stps, "add_prnu").prnu,
     dsnu |-> ParamsOf(stps, "add_dark_signal").dsnu,
     offset |-> ParamsOf(stps, "add_column_offset").offset]

\* The fixed patterns the instance holds.
HeldFPN == [prnu |-> PRNU, dsnu |-> DSNU, offset |-> column_offset_FPN]

\* The identities of the samples drawn while a value was computed.
DrawsOf(hist) ==
    {hist[i].draws[1] : i \in {j \in DOMAIN hist : hist[j].draws # <<>>}}

Returned(op) == last.op = op /\ last.err = ""

-----------------------------------------------------------------------------
(* C1 *)

\* C1: a transform call replaces or modifies none of the fixed patterns:
\* DSNU, PRNU and column_offset_FPN of the instance and the prnu, dsnu and
\* offset parameters of the stages are after the call what they were before
\* it, whatever the input signal and whether the call returns or raises; and
\* a call that returns has computed its result with exactly these stage
\* parameters.  Two transform calls with no fit between them therefore use
\* identical arrays.
C1_TransformKeepsFPN ==
    [][ last'.op = "transform" =>
          /\ DSNU' = DSNU
          /\ PRNU' = PRNU
          /\ column_offset_FPN' = column_offset_FPN
          /\ StepFPN(steps') = StepFPN(steps)
          /\ (last'.err = "" => StepFPN(last'.out.hist) = StepFPN(steps)) ]_vars

\* A returned transform on an instance holding a sampled column-offset
\* array, whose own samples were drawn at least three draws after that
\* array was: an earlier call has drawn in between.
C1_Witness ==
    /\ Returned("transform")
    /\ column_offset_FPN.kind = "array"
    /\ StepFPN(last.out.hist).offset = column_offset_FPN
    /\ \A d \in DrawsOf(last.out.hist) : d >= column_offset_FPN.id + 4

(* C2 *)

\* C2: a transform call on an instance that has not been fitted raises
\* NotFitted, for every input signal.
C2_UnfittedTransformRaisesNotFitted ==
    (last.op = "transform" /\ ~fitted) => last.err = NotFitted

(* C3 *)

FitReturned(l) == l.op \in {"fit", "fit_transform"} /\ l.err = ""
SomeFactor == cfg.dark_factor # 0 \/ cfg.prnu_factor # 0 \/ cfg.offset_factor # 0

\* C3 as stated: a fit on a fitted instance changes at least one of DSNU,
\* PRNU, column_offset_FPN, for every configuration, the rebuilt stage list
\* carries the arrays held after it, and no other operation changes them.
C3_RefitChangesFPN ==
    [][ /\ (fitted /\ FitReturned(last')) =>
              /\ (DSNU' # DSNU \/ PRNU' # PRNU
                    \/ column_offset_FPN' # column_offset_FPN)
              /\ StepFPN(steps') = HeldFPN'
        /\ (last'.op \notin {"fit", "fit_transform"} => HeldFPN' = HeldFPN)
      ]_vars

\* A pattern of a returned fit: an array sampled during this call when its
\* factor is not 0, the number 0 when it is.
FreshOrZero(factor, old, new, r) ==
    IF factor = 0
    THEN new = Zero
    ELSE new.kind = "array" /\ new.id > r /\ new # old

\* C3 amended: a fit on a fitted instance replaces every pattern whose noise
\* factor is not 0 by an array sampled during that call, different from the
\* one held before, and sets a pattern whose factor is 0 to the number 0; so
\* at least one pattern changes when some factor is not 0.  The rebuilt stage
\* list carries the patterns held after the fit, and no operation other than
\* fit (or fit_transform) changes the held patterns.
C3_RefitChangesFPNOfNonzeroFactors ==
    [][ /\ (fitted /\ FitReturned(last')) =>
              /\ FreshOrZero(cfg.dark_factor, DSNU, DSNU', rng)
              /\ FreshOrZero(cfg.prnu_factor, PRNU, PRNU', rng)
              /\ FreshOrZero(cfg.offset_factor, column_offset_FPN,
                             column_offset_FPN', rng)
              /\ (SomeFactor => HeldFPN' # HeldFPN)
              /\ StepFPN(steps') = HeldFPN'
        /\ (last'.op \notin {"fit", "fit_transform"} => HeldFPN' = HeldFPN)
      ]_vars

\* A returned fit after which step_outputs still holds the result of an
\* earlier transform that was computed with another column-offset array:
\* the instance was fitted before, and this fit replaced the array.
C3_Witness ==
    /\ Returned("fit")
    /\ column_offset_FPN.kind = "array"
    /\ "voltage to DN" \in DOMAIN step_outputs
    /\ StepFPN(step_outputs["voltage to DN"].hist).offset.kind = "array"
    /\ StepFPN(step_outputs["voltage to DN"].hist).offset # column_offset_FPN
    /\ StepFPN(steps) = HeldFPN

(* C4 *)

\* C4: in the result of every returned transform (and fit_transform) each
\* stochastic stage (photon shot noise, dark signal shot noise, read noise)
\* has used exactly one sample, drawn from the generator during this very
\* call, no two stages the same one, and none of them a sample the instance
\* holds; the other stages use none.  A fit draws nothing but the fixed
\* patterns it assigns.
C4_TransformDrawsFresh ==
    [][ /\ (last'.op \in {"transform", "fit_transform"} /\ last'.err = "") =>
              LET h == last'.out.hist
              IN  /\ \A i \in DOMAIN h :
                        IF h[i].fn \in StochasticFns
                        THEN /\ Len(h[i].draws) = 1
                             /\ h[i].draws[1] > rng
                             /\ h[i].draws[1] <= rng'
                             /\ Sample(h[i].draws[1]) \notin
                                    {DSNU', PRNU', column_offset_FPN'}
                        ELSE h[i].draws = <<>>
                  /\ \A f \in StochasticFns : \E i \in DOMAIN h : h[i].fn = f
                  /\ Cardinality(DrawsOf(h)) = Cardinality(StochasticFns)
        /\ (last'.op = "fit" =>
              \A n \in (rng + 1)..rng' :
                  Sample(n) \in {DSNU', PRNU', column_offset_FPN'})
      ]_vars

\* A returned transform with its three samples, the first of them at least
\* the fourth draw of the run: earlier calls have drawn before it.
C4_Witness ==
    /\ Returned("transform")
    /\ Cardinality(DrawsOf(last.out.hist)) = 3
    /\ \A d \in DrawsOf(last.out.hist) : d >= 4
    /\ DSNU.kind = "array"

(* C5 *)

\* C5: fit_transform(signal) leaves the instance and the generator as
\* fit(signal) followed by transform(signal) leaves them and returns (or
\* raises) what that transform returns (or raises); when the fit raises, the
\* instance is as the failed fit left it, its exception is the outcome and
\* no stage is run.
C5_FitTransformIsFitThenTransform ==
    [][ last'.op = "fit_transform" =>
          LET f == fit(Self, last'.arg, rng)
              t == transform(f.self, last'.arg, f.rng)
          IN  IF f.err # ""
              THEN /\ Self' = f.self
                   /\ rng' = f.rng
                   /\ last'.err = f.err
                   /\ last'.trace = <<>>
                   /\ last'.out = NoSignal
              ELSE /\ Self' = t.self
                   /\ rng' = t.rng
                   /\ last'.err = t.err
                   /\ last'.out = t.out
                   /\ last'.trace = t.trace
                   /\ fitted'
                   /\ steps' = _set_steps(Self')
      ]_vars

\* A returned fit_transform on an instance with sampled patterns.
C5_Witness ==
    /\ Returned("fit_transform")
    /\ fitted
    /\ PRNU.kind = "array"
    /\ Len(last.trace) = Len(steps)

(* C6 *)

\* The dimensions of a signal after the first two.
OtherDims(signal) == SubSeq(signal.dims, 3, Len(signal.dims))

\* signal is arg with y and x moved to the front and nothing else changed.
IsReordered(signal, arg) ==
    /\ Len(signal.dims) >= 2
    /\ signal.dims[1] = "y"
    /\ signal.dims[2] = "x"
    /\ OtherDims(signal) = SelectSeq(arg.dims, LAMBDA d : d \notin {"x", "y"})
    /\ signal.coords = arg.coords
    /\ signal.attrs = arg.attrs
    /\ signal.hist = arg.hist

\* C6: a returned transform has run the stages of the stage list in the
\* listed order, each exactly once; the first stage received the
\* axis-reordered input and every later stage the output of the stage before
\* it; the value returned is the last stage's output.  This holds with
\* store_steps on and off.
C6_StagesRunInOrder ==
    (last.op = "transform" /\ last.err = "") =>
        LET t == last.trace
            h == last.out.hist
            n == Len(steps)
            h0 == Len(last.arg.hist)
        IN  /\ Len(t) = n
            /\ [i \in DOMAIN t |-> t[i].stage] = get_steps(Self)
            /\ IsReordered(t[1].inp, last.arg)
            /\ \A i \in 2..n : t[i].inp = t[i - 1].out
            /\ Len(h) = h0 + n
            /\ \A i \in 1..n :
                   /\ h[h0 + i].fn = steps[i].fn
                   /\ h[h0 + i].params = steps[i].params
                   /\ t[i].out.hist = SubSeq(h, 1, h0 + i)

\* A returned transform of the eleven-stage list with step capture on.
C6_Witness ==
    /\ Returned("transform")
    /\ cfg.store_steps
    /\ cfg.apply_spatial_resampling
    /\ Len(last.trace) = 11
    /\ last.trace[2].stage = "apply spatial resampling"
    /\ last.trace[11].stage = "voltage to DN"

(* C7 *)

\* C7: on a fitted instance, transform of a signal without dimension x or
\* without dimension y raises the missing-axis error and runs no stage (no
\* sample is drawn, step_outputs is as before); of any other signal, the
\* first stage receives the input with axes y, x first and the remaining
\* axes in their original relative order.
C7_AxisCheckOnFitted ==
    [][ (last'.op = "transform" /\ fitted) =>
          IF ~({"x", "y"} \subseteq Dims(last'.arg))
          THEN /\ last'.err = AxisMissing
               /\ last'.trace = <<>>
               /\ last'.out = NoSignal
               /\ UNCHANGED <<rng, step_outputs, Self>>
          ELSE /\ Len(last'.trace) >= 1
               /\ IsReordered(last'.trace[1].inp, last'.arg)
      ]_vars

\* A fitted instance whose last transform was given a signal with axes
\* band, x and raised the missing-axis error.
C7_Witness ==
    /\ fitted
    /\ last.op = "transform"
    /\ last.arg.dims = <<"band", "x">>
    /\ last.err = AxisMissing

(* C8 *)

C9_StoreStepsRecordsAndAgrees ==
    [][ last'.op = "transform" =>
          IF cfg.store_steps
          THEN last'.err = "" =>
                 LET plain == transform([Self EXCEPT !.cfg.store_steps = FALSE],
                                        last'.arg, rng)
                 IN  /\ \A i \in DOMAIN steps :
                           /\ steps[i].name \in DOMAIN step_outputs'
                           /\ step_outputs'[steps[i].name] = last'.trace[i].out
                           /\ step_outputs'[steps[i].name].hist =
                                  SubSeq(last'.out.hist, 1,
                                         Len(last'.arg.hist) + i)
                     /\ plain.err = ""
                     /\ last'.out = plain.out
                     /\ rng' = plain.rng
                     /\ plain.self.step_outputs = step_outputs
          ELSE step_outputs' = step_outputs
      ]_vars

\* A returned transform with step capture on: step_outputs has an entry for
\* every stage, and the entry of the last stage has the value returned.
C9_Witness ==
    /\ Returned("transform")
    /\ cfg.store_steps
    /\ DOMAIN step_outputs = {steps[i].name : i \in DOMAIN steps}
    /\ step_outputs["voltage to DN"].hist = last.out.hist
    /\ step_outputs["radiant energy to radiant flux"].hist
           = SubSeq(last.out.hist, 1, 1)

(* C10 *)

UnknownStage == "UnknownStage"

\* C10 as stated: apply_step(signal, name) with a name of get_steps()
\* applies exactly the stage of that name to the signal; with any other
\* name it fails with the unknown-stage error.
C10_ApplyStepByName ==
    (last.op = "apply_step" /\ last.key.kind = "str") =>
        IF \E i \in DOMAIN steps : steps[i].name = last.key.s
        THEN \E i \in DOMAIN steps :
                 /\ steps[i].name = last.key.s
                 /\ Len(last.trace) = 1
                 /\ last.trace[1].stage = last.key.s
                 /\ last.trace[1].inp = last.arg
                 /\ last.err = "" => last.out = last.trace[1].out
        ELSE last.err = UnknownStage

-----------------------------------------------------------------------------
(* The detector stage functions on numbers                                 *)
(* (pyeosim/imager.py, pyeosim/_sensor.py, pyeosim/detector.py).           *)
(* An array operation acts on every element alike, so a function is       *)
(* modelled on one element.  Voltages, electron counts and gains are       *)
(* exact fractions: an integer numerator over the stated denominator.      *)

MaxBitDepth == 3
MaxVolt == 12
MaxFullWell == 4
MaxNoise == 3

\* numpy round of n/d (d > 0): to the nearest integer, halves to even.
Round(n, d) ==
    LET q == n \div d
        m == n % d
    IN  IF 2 * m < d THEN q
        ELSE IF 2 * m > d THEN q + 1
        ELSE IF q % 2 = 0 THEN q ELSE q + 1

\* numpy.int(2**bit_depth - 1)
MaxDN(bit_depth) == 2 ^ bit_depth - 1

\* imager.voltage_to_DN(voltage, v_ref, bit_depth):
\*   DN = max_DN * (voltage / v_ref)
\*   DN = DN.round().where(DN < max_DN, max_DN)
\*   return DN.round().where(DN > 0, 0)
voltage_to_DN_imager(voltage, v_ref, bit_depth) ==
    LET max_DN == MaxDN(bit_depth)
        n == max_DN * voltage
        DN == IF n < max_DN * v_ref THEN Round(n, v_ref) ELSE max_DN
    IN  IF DN > 0 THEN DN ELSE 0

\* _sensor.voltage_to_DN(voltage, v_ref, adc_gain, bit_depth), adc_gain in
\* halves:
\*   DN = adc_gain * (v_ref - voltage)
\*   DN = DN.round().where(DN < max_DN, max_DN)
\*   return DN.round().where(DN > 0, 0)
voltage_to_DN__sensor(voltage, v_ref, adc_gain, bit_depth) ==
    LET max_DN == MaxDN(bit_depth)
        n == adc_gain * (v_ref - voltage)
        DN == IF n < 2 * max_DN THEN Round(n, 2) ELSE max_DN
    IN  IF DN > 0 THEN DN ELSE 0

\* detector.voltage_to_DN(voltage, v_ref, adc_gain, bit_depth), adc_gain in
\* halves:
\*   DN = (adc_gain * (v_ref - voltage)).round()
\*   DN = DN.where(DN <= max_DN, DN)
\*   return DN.where(DN > 0, 0)
voltage_to_DN_detector(voltage, v_ref, adc_gain, bit_depth) ==
    LET max_DN == MaxDN(bit_depth)
        DN0 == Round(adc_gain * (v_ref - voltage), 2)
        DN == IF DN0 <= max_DN THEN DN0 ELSE DN0
    IN  IF DN > 0 THEN DN ELSE 0

\* imager.add_gaussian_noise(electron_count, sigma) on one element, both the
\* count and the sample of numpy.random.normal in halves:
\*   return (electron_count + gaus_noise).round()
add_gaussian_noise(electron_count, gaus_noise) ==
    Round(electron_count + gaus_noise, 2)

\* imager.electron_to_voltage(electron_count, v_ref, sense_node_gain,
\* full_well, read_noise), electron_count in halves:
\*   e = electron_count.where(electron_count < full_well, full_well)
\*   e = add_gaussian_noise(e, read_noise).round()
\*   return v_ref * (e * sense_node_gain)
electron_to_voltage_imager(electron_count, v_ref, sense_node_gain, full_well, gaus_noise) ==
    LET e0 == IF electron_count < 2 * full_well
              THEN electron_count ELSE 2 * full_well
        e == add_gaussian_noise(e0, gaus_noise)
    IN  v_ref * (e * sense_node_gain)

\* _sensor.electron_to_voltage(electron_count, v_ref, sense_node_gain,
\* full_well), electron_count in halves:
\*   e = electron_count.round().where(electron_count < full_well, full_well)
\*   return v_ref - (e * sense_node_gain)
electron_to_voltage__sensor(electron_count, v_ref, sense_node_gain, full_well) ==
    LET e == IF electron_count < 2 * full_well
             THEN Round(electron_count, 2) ELSE full_well
    IN  v_ref - (e * sense_node_gain)

\* detector.electron_to_voltage: as _sensor's with <= in place of <.
electron_to_voltage_detector(electron_count, v_ref, sense_node_gain, full_well) ==
    LET e == IF electron_count <= 2 * full_well
             THEN Round(electron_count, 2) ELSE full_well
    IN  v_ref - (e * sense_node_gain)

Voltages == (0 - 3)..MaxVolt
VRefs == {2, 4}
BitDepths == 1..MaxBitDepth
AdcGains == {1, 2, 3}
ElectronCounts == 0..(2 * MaxFullWell + 3)
FullWells == 1..MaxFullWell
Noises == (0 - MaxNoise)..MaxNoise
SenseNodeGains == {1, 5}

\* A call of a module-level function: its name, its arguments, its result.
FnCall(op, args, out) == [op |-> op, args |-> args, out |-> out]

\* A constructed sensor; each run then calls one function once, on numbers
\* drawn from the sets above.
DetectorInit == Init

VoltageToDN_imager ==
    \E v \in Voltages, v_ref \in VRefs, b \in BitDepths :
        /\ last.op = "__init__"
        /\ last' = FnCall("imager.voltage_to_DN",
                          [voltage |-> v, v_ref |-> v_ref, bit_depth |-> b],
                          voltage_to_DN_imager(v, v_ref, b))
        /\ UNCHANGED <<cfg, derived, PRNU, DSNU, column_offset_FPN, steps,
                       step_outputs, fitted, rng, reflectance, inflight>>

VoltageToDN__sensor ==
    \E v \in Voltages, v_ref \in VRefs, g \in AdcGains, b \in BitDepths :
        /\ last.op = "__init__"
        /\ last' = FnCall("_sensor.voltage_to_DN",
                          [voltage |-> v, v_ref |-> v_ref, adc_gain |-> g,
                           bit_depth |-> b],
                          voltage_to_DN__sensor(v, v_ref, g, b))
        /\ UNCHANGED <<cfg, derived, PRNU, DSNU, column_offset_FPN, steps,
                       step_outputs, fitted, rng, reflectance, inflight>>

VoltageToDN_detector ==
    \E v \in Voltages, v_ref \in VRefs, g \in AdcGains, b \in BitDepths :
        /\ last.op = "__init__"
        /\ last' = FnCall("detector.voltage_to_DN",
                          [voltage |-> v, v_ref |-> v_ref, adc_gain |-> g,
                           bit_depth |-> b],
                          voltage_to_DN_detector(v, v_ref, g, b))
        /\ UNCHANGED <<cfg, derived, PRNU, DSNU, column_offset_FPN, steps,
                       step_outputs, fitted, rng, reflectance, inflight>>

ElectronToVoltage_imager ==
    \E e \in ElectronCounts, v_ref \in VRefs, g \in SenseNodeGains,
       fw \in FullWells, n \in Noises :
        /\ last.op = "__init__"
        /\ last' = FnCall("imager.electron_to_voltage",
                          [electron_count |-> e, v_ref |-> v_ref,
                           sense_node_gain |-> g, full_well |-> fw,
                           gaus_noise |-> n],
                          electron_to_voltage_imager(e, v_ref, g, fw, n))
        /\ UNCHANGED <<cfg, derived, PRNU, DSNU, column_offset_FPN, steps,
                       step_outputs, fitted, rng, reflectance, inflight>>

ElectronToVoltage__sensor ==
    \E e \in ElectronCounts, v_ref \in VRefs, g \in SenseNodeGains,
       fw \in FullWells :
        /\ last.op = "__init__"
        /\ last' = FnCall("_sensor.electron_to_voltage",
                          [electron_count |-> e, v_ref |-> v_ref,
                           sense_node_gain |-> g, full_well |-> fw],
                          electron_to_voltage__sensor(e, v_ref, g, fw))
        /\ UNCHANGED <<cfg, derived, PRNU, DSNU, column_offset_FPN, steps,
                       step_outputs, fitted, rng, reflectance, inflight>>

ElectronToVoltage_detector ==
    \E e \in ElectronCounts, v_ref \in VRefs, g \in SenseNodeGains,
       fw \in FullWells :
        /\ last.op = "__init__"
        /\ last' = FnCall("detector.electron_to_voltage",
                          [electron_count |-> e, v_ref |-> v_ref,
                           sense_node_gain |-> g, full_well |-> fw],
                          electron_to_voltage_detector(e, v_ref, g, fw))
        /\ UNCHANGED <<cfg, derived, PRNU, DSNU, column_offset_FPN, steps,
                       step_outputs, fitted, rng, reflectance, inflight>>

DetectorNext ==
    \/ VoltageToDN_imager
    \/ VoltageToDN__sensor
    \/ VoltageToDN_detector
    \/ ElectronToVoltage_imager
    \/ ElectronToVoltage__sensor
    \/ ElectronToVoltage_detector

DetectorSpec == DetectorInit /\ [][DetectorNext]_vars

(* C11 *)

VoltageToDNOps ==
    {"imager.voltage_to_DN", "_sensor.voltage_to_DN", "detector.voltage_to_DN"}

\* C11: for every input voltage and every bit_depth, the output of each of
\* the three voltage_to_DN implementations lies in [0, 2^bit_depth - 1].
C11_DNInRange ==
    last.op \in VoltageToDNOps =>
        /\ last.out >= 0
        /\ last.out <= 2 ^ last.args.bit_depth - 1

(* C12 *)

\* The electron count the returned voltage stands for, times the
\* denominator v_ref * sense_node_gain (imager) or sense_node_gain (the
\* other two), which are positive.
ReflectedCharge(l) ==
    IF l.op = "imager.electron_to_voltage"
    THEN [num |-> l.out, den |-> l.args.v_ref * l.args.sense_node_gain]
    ELSE [num |-> l.args.v_ref - l.out, den |-> l.args.sense_node_gain]

ElectronToVoltageOps ==
    {"imager.electron_to_voltage", "_sensor.electron_to_voltage",
     "detector.electron_to_voltage"}

\* C12: for every electron count and every read-noise sample, the voltage
\* electron_to_voltage returns stands for an electron count of at most
\* full_well.
C12_ChargeAtMostFullWell ==
    last.op \in ElectronToVoltageOps =>
        ReflectedCharge(last).num <= last.args.full_well * ReflectedCharge(last).den

(* C13 *)

\* C13: after a returned fit the stage list's integration_time,
\* focal_length and dark_current parameters are the values derived from the
\* configuration as it is at the time of the call, also when a
\* configuration attribute (TDI_rows) was assigned since the derived values
\* were last computed.
C13_FitDerivesFromCurrentConfiguration ==
    Returned("fit") =>
        /\ ParamsOf(steps, "photon_mean").integration_time
               = _integration_time(cfg)
        /\ ParamsOf(steps, "add_dark_signal").integration_time
               = _integration_time(cfg)
        /\ ParamsOf(steps, "radiance_to_irradiance_2").focal_length
               = DerivedParams(cfg).focal_length
        /\ ParamsOf(steps, "add_dark_signal").dark_current
               = cfg.dark_current * cfg.TDI_rows

(* C14 *)

\* The parameters of a stage list that come from the configuration: every
\* parameter but the three fixed patterns.
StepConfig(stps) ==
    [i \in DOMAIN stps |->
        IF stps[i].fn \in {"add_prnu", "add_column_offset"}
        THEN NoParams
        ELSE IF stps[i].fn = "add_dark_signal"
             THEN [dark_current |-> stps[i].params.dark_current,
                   integration_time |-> stps[i].params.integration_time]
             ELSE stps[i].params]

\* The stage list in which every parameter has the value the configuration
\* c gives it.
CurrentSteps(c) ==
    _set_steps([Self EXCEPT !.cfg = c, !.derived = DerivedParams(c)])

\* C14 as stated: update_derived_params recomputes every derived value and
\* rebuilds the stage list so that every stage parameter has the value the
\* current configuration gives it, and no other operation (fit, transform,
\* ...) changes the configuration values the stages use.
C14_OnlyUpdateDerivedParamsAppliesConfiguration ==
    [][ /\ last'.op = "update_derived_params" =>
              /\ derived' = DerivedParams(cfg')
              /\ StepConfig(steps') = StepConfig(CurrentSteps(cfg'))
        /\ last'.op # "update_derived_params" =>
              StepConfig(steps') = StepConfig(steps)
      ]_vars

\* C14 amended: update_derived_params recomputes every derived value and
\* rebuilds the stage list so that every stage parameter has the value the
\* current configuration gives it.  transform, apply_step and the
\* assignment of a configuration attribute leave the derived values and the
\* stage list as they are.  fit (and the fit of fit_transform) leaves the
\* derived values as they are and, unless it raises, rebuilds the stage
\* list: a parameter a stage takes directly from a configuration attribute
\* gets the attribute's current value, a parameter taken from a derived
\* value gets the derived value as last computed.
C14_ConfigurationReachesStages ==
    [][ /\ last'.op = "update_derived_params" =>
              /\ derived' = DerivedParams(cfg')
              /\ StepConfig(steps') = StepConfig(CurrentSteps(cfg'))
        /\ last'.op \in {"transform", "apply_step", "setattr"} =>
              /\ derived' = derived
              /\ steps' = steps
        /\ last'.op \in {"fit", "fit_transform"} =>
              /\ derived' = derived
              /\ cfg' = cfg
              /\ IF fitted' /\ (last'.op = "fit" => last'.err = "")
                    /\ (last'.op = "fit_transform" =>
                            fit(Self, last'.arg, rng).err = "")
                 THEN StepConfig(steps') = StepConfig(_set_steps(Self))
                 ELSE steps' = steps
      ]_vars

\* update_derived_params has just run after TDI_rows and bit_depth were
\* assigned: the stages have the values of the changed configuration.
C14_Witness ==
    /\ last.op = "update_derived_params"
    /\ cfg.TDI_rows = 64
    /\ cfg.bit_depth = 12
    /\ ParamsOf(steps, "add_dark_signal").dark_current = cfg.dark_current * 64
    /\ ParamsOf(steps, "photon_mean").integration_time = _integration_time(cfg)
    /\ ParamsOf(steps, "voltage_to_DN").bit_depth = 12

(* C15 *)

\* A value computed from a spatially uniform input is spatially uniform
\* when nothing that varies from pixel to pixel entered it: no array
\* sampled from the random generator (a sample has one independent element
\* per pixel) and no fixed pattern other than the number 0.
SpatiallyUniform(signal) ==
    /\ DrawsOf(signal.hist) = {}
    /\ StepFPN(signal.hist) = [prnu |-> Zero, dsnu |-> Zero, offset |-> Zero]

\* C15: with prnu_factor, dark_factor and offset_factor all 0, the image
\* fit_transform returns for a spatially uniform input is spatially uniform.
C15_ZeroFactorsGiveUniformImage ==
    (/\ Returned("fit_transform")
     /\ cfg.prnu_factor = 0 /\ cfg.dark_factor = 0 /\ cfg.offset_factor = 0)
        => SpatiallyUniform(last.out)

-----------------------------------------------------------------------------
(* CmosReflectance and CmosReflectance_ff (pyeosim/postprocess.py).        *)
(* The instance wraps the sensor of this model as its cmos_sensor; the    *)
(* variable reflectance holds its own attributes.                          *)

\* The reference_signal argument of the constructor.
ReferenceSignal ==
    [dims |-> <<"band", "y", "x">>, coords |-> {"wavelength"},
     attrs |-> EmptyAttrs, hist |-> <<>>]

\* self.ff_frame = 1
One == [kind |-> "one", id |-> 0]

\* The element of a one-element set; {e(x) : x \in {v}} evaluates v once.
Only(S) == CHOOSE x \in S : TRUE

\* generate_ff_image(ref_signal, sensor): the reference repeated along a
\* new axis and an all-zero signal of that shape are both passed through
\* sensor.transform; the frame is computed from the two images.
generate_ff_image(ref_signal, s, r) ==
    LET ref == [ref_signal EXCEPT !.dims = <<"repeat">> \o ref_signal.dims]
        zero_ref == [ref EXCEPT !.hist = <<>>, !.attrs = EmptyAttrs]
        Failed(t) == [self |-> t.self, rng |-> t.rng, err |-> t.err,
                      ff |-> None]
        Frame(im, dark_level) ==
            [self |-> dark_level.self, rng |-> dark_level.rng, err |-> "",
             ff |-> [kind |-> "frame", id |-> 0, im |-> im.out.hist,
                     dark_level |-> dark_level.out.hist]]
    IN  Only({ IF im.err # ""
               THEN Failed(im)
               ELSE Only({ IF dark_level.err # ""
                           THEN Failed(dark_level)
                           ELSE Frame(im, dark_level) :
                           dark_level \in {transform(im.self, zero_ref,
                                                     im.rng)} }) :
               im \in {transform(s, ref, r)} })

\* fit(signal) of the class cls on the instance p wrapping the sensor s:
\*   self.cmos_sensor.fit(signal)
\*   self.dark_cmos_sensor = deepcopy(self.cmos_sensor)
\*   self.dark_cmos_sensor.column_offset_FPN = self.cmos_sensor.column_offset_FPN
\*   self.dark_cmos_sensor._set_steps()
\*   self.ff_frame = 1   (CmosReflectance)
\*   self.ff_frame = generate_ff_image(...)   (CmosReflectance_ff)
\*   self._fitted = True
\* A deep copy has the values of the original: the same record.
Reflectance_fit(cls, p, s, signal, r) ==
    LET Dark(copy, offset) ==
            _set_steps([copy EXCEPT !.column_offset_FPN = offset])
        WithDark(f) ==
            [p EXCEPT !.cls = cls,
                      !.dark_cmos_sensor =
                          [f.self EXCEPT
                              !.column_offset_FPN = f.self.column_offset_FPN,
                              !.steps = Dark(f.self,
                                             f.self.column_offset_FPN)]]
        Frame(f) ==
            IF cls = "CmosReflectance_ff"
            THEN generate_ff_image(ReferenceSignal, f.self, f.rng)
            ELSE [self |-> f.self, rng |-> f.rng, err |-> "", ff |-> One]
    IN  Only({ IF f.err # ""
               THEN [self |-> f.self, rng |-> f.rng, err |-> f.err,
                     reflectance |-> p]
               ELSE Only({ IF g.err # ""
                           THEN [self |-> g.self, rng |-> g.rng,
                                 err |-> g.err, reflectance |-> p1]
                           ELSE [self |-> g.self, rng |-> g.rng, err |-> "",
                                 reflectance |->
                                     [p1 EXCEPT !.ff_frame = g.ff,
                                                !.fitted = TRUE]] :
                           g \in {Frame(f)}, p1 \in {WithDark(f)} }) :
               f \in {fit(s, signal, r)} })

\* The sensor, the generator and the CmosReflectance instance become what
\* the call left.
CommitReflectance(op, signal, res) ==
    /\ res.rng <= MaxDraws
    /\ cfg' = res.self.cfg
    /\ derived' = res.self.derived
    /\ PRNU' = res.self.PRNU
    /\ DSNU' = res.self.DSNU
    /\ column_offset_FPN' = res.self.column_offset_FPN
    /\ steps' = res.self.steps
    /\ step_outputs' = res.self.step_outputs
    /\ fitted' = res.self.fitted
    /\ rng' = res.rng
    /\ reflectance' = res.reflectance
    /\ inflight' = inflight
    /\ last' = [op |-> op, arg |-> signal, key |-> NoKey, err |-> res.err,
                out |-> NoSignal, trace |-> <<>>]

CmosReflectanceFit ==
    \E signal \in InputSignals :
        \E res \in {Reflectance_fit("CmosReflectance", reflectance, Self,
                                    signal, rng)} :
            CommitReflectance("CmosReflectance.fit", signal, res)

CmosReflectanceFfFit ==
    \E signal \in InputSignals :
        \E res \in {Reflectance_fit("CmosReflectance_ff", reflectance, Self,
                                    signal, rng)} :
            CommitReflectance("CmosReflectance_ff.fit", signal, res)

ReflectanceNext ==
    \/ CmosReflectanceFit
    \/ CmosReflectanceFfFit
    \/ Fit

ReflectanceSpec == Init /\ [][ReflectanceNext]_vars

(* C16 *)

ReflectanceFitReturned ==
    /\ last.op \in {"CmosReflectance.fit", "CmosReflectance_ff.fit"}
    /\ last.err = ""

\* C16: after CmosReflectance.fit or CmosReflectance_ff.fit has returned,
\* the dark sensor's column-offset pattern is the image sensor's, while its
\* DSNU and PRNU are regenerated: where the image sensor holds a sampled
\* array, the dark sensor holds another one.
C16_DarkSensorSharesOnlyColumnOffset ==
    ReflectanceFitReturned =>
        LET dark == reflectance.dark_cmos_sensor
        IN  /\ dark.column_offset_FPN = column_offset_FPN
            /\ (DSNU.kind = "array" => dark.DSNU # DSNU)
            /\ (PRNU.kind = "array" => dark.PRNU # PRNU)

-----------------------------------------------------------------------------
(* The atmosphere transformers: LUT (pyeosim/_atmosphere.py) and           *)
(* SixSAtmosphere (pyeosim/atmospheric.py).                                *)
(* A reflectance signal is its wavelength dimension (a set of integer      *)
(* wavelengths, or no such dimension) and one reflectance per wavelength;  *)
(* a lookup table is sampled at every integer wavelength of an interval    *)
(* and at the reflectances RhoGrid.                                        *)

MaxWavelength == 3
RhoStep == 3
RhoGrid == {0, RhoStep, 2 * RhoStep}
Rhos == {0 - 1, 1, 2 * RhoStep, 2 * RhoStep + 2}

\* The table: pixel radiance at a sampled reflectance and wavelength.
PixelRadiance(rho, wavelength) == 3 * rho * rho + 3 * wavelength - 6

Min(S) == CHOOSE x \in S : \A y \in S : x <= y
Max(S) == CHOOSE x \in S : \A y \in S : x >= y

LookupTables ==
    {[wavelength |-> lo..hi] : lo \in 1..MaxWavelength, hi \in 1..MaxWavelength}
        \ {[wavelength |-> {}]}

ReflectanceSignals ==
    UNION {{[has_wavelength |-> TRUE, wavelength |-> W, rho |-> f] :
               f \in [W -> Rhos]} : W \in (SUBSET (1..MaxWavelength)) \ {{}}}
    \cup {[has_wavelength |-> FALSE, wavelength |-> {},
           rho |-> [w \in {} |-> 0]]}

RangeErrorMin == "RuntimeError('Signal min wavelength less than LUT min.')"
RangeErrorMax == "RuntimeError('Signal max wavelength greater than LUT max.')"

\* The first lines of apply_LUT as they would be without the second test.
WavelengthCheck_min_only(signal, lut) ==
    IF Min(signal.wavelength) < Min(lut.wavelength) THEN RangeErrorMin ELSE ""

\* The first lines of apply_LUT (the same in both classes):
\*   if signal.wavelength.min() < LUT.wavelength.min(): raise RuntimeError
\*   if signal.wavelength.max() > LUT.wavelength.max(): raise RuntimeError
WavelengthCheck(signal, lut) ==
    IF Min(signal.wavelength) < Min(lut.wavelength)
    THEN RangeErrorMin
    ELSE IF Max(signal.wavelength) > Max(lut.wavelength)
         THEN RangeErrorMax
         ELSE ""

\* Linear interpolation of the table along rho at a sampled wavelength; a
\* rho beyond the sampled range continues the line of the outermost
\* interval.
Interp(rho, wavelength) ==
    LET lo == Min(RhoGrid)
        hi == Max(RhoGrid)
        r0 == IF rho < lo THEN lo
              ELSE IF rho >= hi THEN hi - RhoStep
              ELSE Max({g \in RhoGrid : g <= rho})
        t0 == PixelRadiance(r0, wavelength)
        t1 == PixelRadiance(r0 + RhoStep, wavelength)
    IN  t0 + ((t1 - t0) * (rho - r0)) \div RhoStep

\* LUT.sel(rho=signal, ..., method='nearest'): the table entry of the
\* sampled rho nearest to the value.
Nearest(rho, wavelength) ==
    LET g == CHOOSE a \in RhoGrid :
                 \A b \in RhoGrid :
                     (IF rho >= a THEN rho - a ELSE a - rho)
                         <= (IF rho >= b THEN rho - b ELSE b - rho)
    IN  PixelRadiance(g, wavelength)

NoRadiance == [w \in {} |-> 0]
InRhoRange(rho) == rho >= Min(RhoGrid) /\ rho <= Max(RhoGrid)

\* LUT.transform(signal).  The decorator spectral_response raises
\* AttributeError for a signal without the dimension wavelength.  interp is
\* called with fill_value None: depending on the interpolator the installed
\* xarray/scipy selects, a rho outside the sampled range is extrapolated or
\* gives NaN, which result.where(result >= 0, other=0) turns into 0;
\* extrapolates is that choice.
LUT_transform(lut, signal, extrapolates) ==
    IF ~signal.has_wavelength
    THEN [err |-> "AttributeError", out |-> NoRadiance]
    ELSE IF WavelengthCheck(signal, lut) # ""
         THEN [err |-> WavelengthCheck(signal, lut), out |-> NoRadiance]
         ELSE [err |-> "",
               out |-> [w \in signal.wavelength |->
                          LET result ==
                                IF InRhoRange(signal.rho[w]) \/ extrapolates
                                THEN Interp(signal.rho[w], w)
                                ELSE 0 - 1   \* NaN: not >= 0
                          IN  IF result >= 0 THEN result ELSE 0]]

\* SixSAtmosphere.transform(signal)
SixSAtmosphere_transform(lut, signal) ==
    IF ~signal.has_wavelength
    THEN [err |-> "AttributeError", out |-> NoRadiance]
    ELSE IF WavelengthCheck(signal, lut) # ""
         THEN [err |-> WavelengthCheck(signal, lut), out |-> NoRadiance]
         ELSE [err |-> "",
               out |-> [w \in signal.wavelength |->
                          Nearest(signal.rho[w], w)]]

\* A sensor as constructed by default; each run then constructs one
\* transformer around a lookup table and calls transform once.
AtmosphereInit ==
    /\ Init
    /\ <<cfg.prnu_factor, cfg.dark_factor, cfg.offset_factor>> = <<10, 10, 1>>
    /\ ~cfg.store_steps
    /\ ~cfg.apply_spatial_resampling

AtmosphereCall(op, lut, signal, res) ==
    [op |-> op, lut |-> lut, arg |-> signal, err |-> res.err, out |-> res.out]

LUTTransform ==
    \E lut \in LookupTables, signal \in ReflectanceSignals,
       extrapolates \in BOOLEAN :
        /\ last.op = "__init__"
        /\ last' = AtmosphereCall("LUT.transform", lut, signal,
                                  LUT_transform(lut, signal, extrapolates))
        /\ UNCHANGED <<cfg, derived, PRNU, DSNU, column_offset_FPN, steps,
                       step_outputs, fitted, rng, reflectance, inflight>>

SixSAtmosphereTransform ==
    \E lut \in LookupTables, signal \in ReflectanceSignals :
        /\ last.op = "__init__"
        /\ last' = AtmosphereCall("SixSAtmosphere.transform", lut, signal,
                                  SixSAtmosphere_transform(lut, signal))
        /\ UNCHANGED <<cfg, derived, PRNU, DSNU, column_offset_FPN, steps,
                       step_outputs, fitted, rng, reflectance, inflight>>

AtmosphereNext == LUTTransform \/ SixSAtmosphereTransform

AtmosphereSpec == AtmosphereInit /\ [][AtmosphereNext]_vars

AtmosphereOps == {"LUT.transform", "SixSAtmosphere.transform"}
IsRangeError(e) == e \in {RangeErrorMin, RangeErrorMax}

(* C17 *)

\* C17: for a signal with a wavelength dimension, the atmosphere transform
\* (of either class) raises a range error and returns no radiance whenever
\* the signal's minimum wavelength is below the table's minimum or its
\* maximum wavelength above the table's maximum; when all the signal's
\* wavelengths lie within the table's range the call returns a radiance for
\* every wavelength of the signal.
C17_WavelengthRangeError ==
    (last.op \in AtmosphereOps /\ last.arg.has_wavelength) =>
        IF \E w \in last.arg.wavelength :
               \/ \A v \in last.lut.wavelength : w < v
               \/ \A v \in last.lut.wavelength : w > v
        THEN IsRangeError(last.err) /\ last.out = NoRadiance
        ELSE last.err = "" /\ DOMAIN last.out = last.arg.wavelength

\* A LUT transform that raised because the signal's largest wavelength is
\* above the table's range while its smallest is inside it.
C17_Witness ==
    /\ last.op = "LUT.transform"
    /\ last.arg.has_wavelength
    /\ Min(last.arg.wavelength) >= Min(last.lut.wavelength)
    /\ Max(last.arg.wavelength) > Max(last.lut.wavelength)
    /\ last.err = RangeErrorMax

(* C18 *)

\* C18: the atmosphere transform (of either class) fails with a range error
\* when some reflectance of the signal lies outside the table's sampled rho
\* range.
C18_RhoRangeError ==
    (/\ last.op \in AtmosphereOps
     /\ last.arg.has_wavelength
     /\ \E w \in last.arg.wavelength : ~InRhoRange(last.arg.rho[w]))
        => IsRangeError(last.err)

-----------------------------------------------------------------------------
(* The spectral response transform _SRF.transform (pyeosim/_spectral.py). *)
(* A band is its name and the interval of wavelengths on which its         *)
(* response exceeds the tolerance (its support, _min_max); a signal is     *)
(* the set of its integer wavelengths and whether wavelength is its first  *)
(* dimension.  A response function is a step of height peak on its        *)
(* support; a signal has the same value at each of its wavelengths.        *)

MaxSignalWavelength == 7

\* self.band_names with self.srfs, in declared order.
Bands ==
    << [name |-> "B1", lo |-> 1, hi |-> 2, peak |-> 1],
       [name |-> "B2", lo |-> 2, hi |-> 4, peak |-> 2],
       [name |-> "B3", lo |-> 5, hi |-> 6, peak |-> 1] >>

\* The values a signal takes (the same at every wavelength and pixel).
SignalValues == {1, 2}

SpectralSignals ==
    {[wavelength |-> W, wavelength_first |-> f, value |-> v] :
        W \in (SUBSET (0..MaxSignalWavelength)) \ {{}}, f \in BOOLEAN,
        v \in SignalValues}

\* len(out) in _clip(signal, range), out = signal.sel(wavelength=slice(..)):
\* the length of the first dimension, which is the number of selected
\* wavelengths only when wavelength is the first dimension (any other
\* first dimension of an image has at least one element).
ClipLen(signal, band) ==
    IF signal.wavelength_first
    THEN Cardinality({w \in signal.wavelength : band.lo <= w /\ w <= band.hi})
    ELSE 1

\* _clip raises RuntimeError('Out of range: ...') when len(out) < 1; the
\* loop catches it, logs and goes on to the next band.
InResponses(signal, band) == ClipLen(signal, band) >= 1

\* signal.sel(wavelength=slice(range[0], range[1])).wavelength
Clipped(signal, band) ==
    {w \in signal.wavelength : band.lo <= w /\ w <= band.hi}

\* The wavelengths of W in ascending order (the wavelength coordinate).
RECURSIVE Ascending(_)
Ascending(W) ==
    IF W = {} THEN <<>> ELSE <<Min(W)>> \o Ascending(W \ {Min(W)})

RECURSIVE Sum(_)
Sum(seq) == IF seq = <<>> THEN 0 ELSE Head(seq) + Sum(Tail(seq))

\* The integrand of the trapezoidal rule, dx * 0.5 * (y[1:] + y[:-1]), for
\* a function that takes the value f at every sample in W: one term per
\* pair of neighbouring samples.
Integrand(f, W) ==
    LET ws == Ascending(W)
    IN  [i \in 1..(Len(ws) - 1) |-> f * (ws[i + 1] - ws[i])]

\* DataArray.integrate('wavelength') of an array held in memory: the sum of
\* the integrand along wavelength (nothing to sum for fewer than two
\* samples).
Integrate(f, W) == Sum(Integrand(f, W))

\* response.integrate('wavelength'), response = signal * sensor with the
\* sensor interpolated to the signal's wavelengths.
ResponseIntegral(signal, band) ==
    Integrate(signal.value * band.peak, Clipped(signal, band))

\* norm = sensor.integrate('wavelength')
Norm(signal, band) == Integrate(band.peak, Clipped(signal, band))

\* A value num/den.
Ratio(num, den) == [num |-> num, den |-> den]

\* _get_response(signal, sensor): under normalise, out is first bound to
\* the integral divided by norm; the statement after the if binds out to
\* the integral again, whatever normalise is, and that is what is returned.
_get_response(signal, band, normalise) ==
    LET normalised == Ratio(ResponseIntegral(signal, band), Norm(signal, band))
        out == Ratio(ResponseIntegral(signal, band), 1)
    IN  out

\* _SRF.transform(signal, normalise): the band names of the result along
\* the new dimension band, in order, with the integer band coordinate
\* np.arange(len(results_dict)) and the value of each band.
\* _concatenate_results of no response calls xarray.concat with nothing to
\* concatenate, which raises ValueError.
SRF_transform(bands, signal, normalise) ==
    LET responses == SelectSeq(bands, LAMBDA b : InResponses(signal, b))
    IN  IF responses = <<>>
        THEN [err |-> "ValueError", out |-> <<>>, band |-> <<>>,
              values |-> <<>>]
        ELSE [err |-> "",
              out |-> [i \in DOMAIN responses |-> responses[i].name],
              band |-> [i \in DOMAIN responses |-> i - 1],
              values |-> [i \in DOMAIN responses |->
                            _get_response(signal, responses[i], normalise)]]

(* The transform of a signal held as a chunked (lazy) array: the same      *)
(* statements build a graph of deferred operations, which compute()       *)
(* evaluates block by block.  The wavelength axis is cut into blocks of    *)
(* chunk samples.                                                          *)

MaxChunk == 3

\* The block of the chunked signal that holds the sample at wavelength w.
BlockOf(signal, w, chunk) ==
    Cardinality({v \in signal.wavelength : v < w}) \div chunk

\* Blocks that integrate their own samples only: the interval between the
\* last sample of a block and the first of the next is in no block.
IntegrateBlockwise_within_blocks(f, W, signal, chunk) ==
    LET ws == Ascending(W)
        terms == Integrand(f, W)
        block(i) == BlockOf(signal, ws[i + 1], chunk)
        nblocks == Cardinality(signal.wavelength) \div chunk + 1
        partial == [k \in 1..nblocks |->
                       Sum([i \in DOMAIN terms |->
                              IF /\ block(i) = k - 1
                                 /\ BlockOf(signal, ws[i], chunk) = k - 1
                              THEN terms[i] ELSE 0])]
    IN  Sum(partial)

\* DataArray.integrate('wavelength') of a chunked array, computed: the
\* integrand is formed on the whole axis (the slices y[1:] and y[:-1] reach
\* across block boundaries), summed within each block, and the partial sums
\* of the blocks are added.
IntegrateBlockwise(f, W, signal, chunk) ==
    LET ws == Ascending(W)
        terms == Integrand(f, W)
        block(i) == BlockOf(signal, ws[i + 1], chunk)
        nblocks == Cardinality(signal.wavelength) \div chunk + 1
        partial == [k \in 1..nblocks |->
                       Sum([i \in DOMAIN terms |->
                              IF block(i) = k - 1 THEN terms[i] ELSE 0])]
    IN  Sum(partial)

\* _get_response on a chunked signal, computed.
_get_response_chunked(signal, band, normalise, chunk) ==
    LET W == Clipped(signal, band)
        norm == IntegrateBlockwise(band.peak, W, signal, chunk)
        normalised ==
            Ratio(IntegrateBlockwise(signal.value * band.peak, W, signal, chunk),
                  norm)
        out ==
            Ratio(IntegrateBlockwise(signal.value * band.peak, W, signal, chunk),
                  1)
    IN  out

\* _SRF.transform(signal, normalise).compute() for a chunked signal: len()
\* of a chunked array is known without computing it, so the same bands are
\* skipped.
SRF_transform_chunked(bands, signal, normalise, chunk) ==
    LET responses == SelectSeq(bands, LAMBDA b : InResponses(signal, b))
    IN  IF responses = <<>>
        THEN [err |-> "ValueError", out |-> <<>>, band |-> <<>>,
              values |-> <<>>]
        ELSE [err |-> "",
              out |-> [i \in DOMAIN responses |-> responses[i].name],
              band |-> [i \in DOMAIN responses |-> i - 1],
              values |-> [i \in DOMAIN responses |->
                            _get_response_chunked(signal, responses[i],
                                                  normalise, chunk)]]

SRFTransform ==
    \E signal \in SpectralSignals, normalise \in BOOLEAN :
        /\ last.op = "__init__"
        /\ \E res \in {SRF_transform(Bands, signal, normalise)} :
               last' = [op |-> "_SRF.transform", arg |-> signal,
                        normalise |-> normalise,
                        err |-> res.err, out |-> res.out,
                        band |-> res.band, values |-> res.values]
        /\ UNCHANGED <<cfg, derived, PRNU, DSNU, column_offset_FPN, steps,
                       step_outputs, fitted, rng, reflectance, inflight>>

SRFTransformChunked ==
    \E signal \in SpectralSignals, normalise \in BOOLEAN, chunk \in 1..MaxChunk :
        /\ last.op = "__init__"
        /\ \E res \in {SRF_transform_chunked(Bands, signal, normalise, chunk)} :
               last' = [op |-> "_SRF.transform chunked", arg |-> signal,
                        normalise |-> normalise, chunk |-> chunk,
                        err |-> res.err, out |-> res.out,
                        band |-> res.band, values |-> res.values]
        /\ UNCHANGED <<cfg, derived, PRNU, DSNU, column_offset_FPN, steps,
                       step_outputs, fitted, rng, reflectance, inflight>>

SpectralNext == SRFTransform \/ SRFTransformChunked

\* A sensor as constructed by default; each run then calls the transform of
\* its spectral response once.
SpectralSpec == AtmosphereInit /\ [][SpectralNext]_vars

(* C19 *)

\* The signal's wavelength span covers the whole support of the band.
Covered(signal, band) ==
    /\ Min(signal.wavelength) <= band.lo
    /\ band.hi <= Max(signal.wavelength)

\* C19: the spectral response transform returns (does not abort), and its
\* result holds, in declared order, exactly the bands whose support is
\* fully covered by the signal's wavelength span; every other band is
\* omitted.
C19_UncoveredBandsAreSkipped ==
    last.op = "_SRF.transform" =>
        /\ last.err = ""
        /\ LET covered == SelectSeq(Bands, LAMBDA b : Covered(last.arg, b))
           IN  last.out = [i \in DOMAIN covered |-> covered[i].name]

(* C20 *)

\* The axes (dimensions or coordinates) a stage reads by name.
RequiredAxes(stage) ==
    CASE stage = "apply spatial resampling" -> {"x", "y"}
      [] stage = "radiant energy to radiant flux" -> {"wavelength"}
      [] OTHER -> {}

\* The error the pipeline is to fail with: it names the axis and the stage.
ShapeMismatch(axis, stage) ==
    CASE axis = "x" /\ stage = "apply spatial resampling" ->
             "ShapeMismatch(axis='x', stage='apply spatial resampling')"
      [] axis = "y" /\ stage = "apply spatial resampling" ->
             "ShapeMismatch(axis='y', stage='apply spatial resampling')"
      [] OTHER ->
             "ShapeMismatch(axis='wavelength', stage='radiant energy to radiant flux')"

\* The last stage execution of the most recent call was given a signal
\* that lacks an axis the stage requires.
StageLacksAxis ==
    /\ last.op \in {"transform", "fit_transform", "apply_step"}
    /\ last.trace # <<>>
    /\ RequiredAxes(last.trace[Len(last.trace)].stage)
           \ Names(last.trace[Len(last.trace)].inp) # {}

\* C20: when a stage is executed on a signal that lacks an axis the stage
\* requires, the call fails with a ShapeMismatch error that names the
\* missing axis and the stage.
C20_MissingAxisRaisesShapeMismatch ==
    StageLacksAxis =>
        LET e == last.trace[Len(last.trace)]
        IN  \E axis \in RequiredAxes(e.stage) \ Names(e.inp) :
                last.err = ShapeMismatch(axis, e.stage)


(* C21 *)

\* The band of the declared response functions with the given name.
BandNamed(name) == CHOOSE b \in {Bands[i] : i \in DOMAIN Bands} : b.name = name

\* C21: with normalise=True the transform returns, for each band, the
\* integrated response divided by the integral of that band's response
\* function (stated where that integral is not zero).
C21_NormaliseDividesByResponseIntegral ==
    (last.op = "_SRF.transform" /\ last.normalise /\ last.err = "") =>
        \A i \in DOMAIN last.out :
            LET b == BandNamed(last.out[i])
            IN  Norm(last.arg, b) # 0 =>
                    last.values[i].num * Norm(last.arg, b)
                        = ResponseIntegral(last.arg, b) * last.values[i].den


(* C22 *)

-----------------------------------------------------------------------------
(* Several transform calls in flight on one instance                       *)
(* (GenericTransformer.transform and _apply_steps, pyeosim/_pipeline.py).  *)
(* Each call has its own local variables (signal, meta, _signal); the      *)
(* instance and the random generator are shared.  A step of a call is the  *)
(* entry of transform, one stage execution, or the statements after the    *)
(* loop.                                                                    *)

\* The signals passed to the calls in flight: two images that differ in
\* axes and metadata, and one without the x axis.
InFlightSignals ==
    { [dims |-> <<"band", "y", "x">>, coords |-> {"wavelength"},
       attrs |-> EmptyAttrs, hist |-> <<>>],
      [dims |-> <<"repeat", "x", "band", "y">>, coords |-> {"wavelength"},
       attrs |-> [k \in {"res", ProvenanceKey} |-> AttrStr("earlier")],
       hist |-> <<>>],
      [dims |-> <<"band", "y">>, coords |-> {"wavelength"},
       attrs |-> EmptyAttrs, hist |-> <<>>] }

\* The stage input as it would be if each stage were fed from the entry
\* the previous stage left in step_outputs.
PipedSignal_from_step_outputs(call, stps, outs) ==
    IF call.pc > 1 /\ stps[call.pc - 1].name \in DOMAIN outs
    THEN outs[stps[call.pc - 1].name]
    ELSE call.signal

\* The signal piped into the next stage: the local variable _signal.
PipedSignal(call, stps, outs) == call.signal

\* transform up to the loop of _apply_steps: the transpose, the test of
\* _fitted, meta = signal.attrs.copy() and _signal = signal.copy().
TransformBegin(c) ==
    \E signal \in InFlightSignals :
        /\ inflight[c].pc = 0 /\ ~inflight[c].done
        /\ inflight' =
             [inflight EXCEPT ![c] =
                IF ~Transposable(signal)
                THEN [@ EXCEPT !.done = TRUE, !.arg = signal,
                               !.err = AxisMissing]
                ELSE IF ~fitted
                THEN [@ EXCEPT !.done = TRUE, !.arg = signal,
                               !.err = NotFitted]
                ELSE [@ EXCEPT !.pc = 1, !.arg = signal,
                               !.meta = signal.attrs,
                               !.signal = Transpose(signal)]]
        /\ last' = [op |-> "transform in flight", call |-> c]
        /\ UNCHANGED <<cfg, derived, PRNU, DSNU, column_offset_FPN, steps,
                       step_outputs, fitted, rng, reflectance>>

\* One pass of the loop: _signal = _signal.pipe(step[1], **step[2]), and
\* under store_steps self.step_outputs[step[0]] = _signal.copy().
TransformStage(c) ==
    /\ inflight[c].pc \in DOMAIN steps /\ ~inflight[c].done
    /\ \E a \in {Pipe(PipedSignal(inflight[c], steps, step_outputs),
                      steps[inflight[c].pc], rng)} :
          /\ rng' = a.rng
          /\ IF a.err # ""
             THEN /\ inflight' = [inflight EXCEPT ![c].done = TRUE,
                                                  ![c].err = a.err]
                  /\ step_outputs' = step_outputs
             ELSE /\ inflight' = [inflight EXCEPT ![c].signal = a.out,
                                                  ![c].pc = @ + 1]
                  /\ step_outputs' =
                       IF cfg.store_steps
                       THEN SetItem(step_outputs, steps[inflight[c].pc].name,
                                    a.out)
                       ELSE step_outputs
    /\ last' = [op |-> "transform in flight", call |-> c]
    /\ UNCHANGED <<cfg, derived, PRNU, DSNU, column_offset_FPN, steps,
                   fitted, reflectance>>

\* After the loop: meta[k] = json.dumps(self.get_params(), ...),
\* _signal.attrs = meta, return _signal.
TransformReturn(c) ==
    /\ inflight[c].pc = Len(steps) + 1 /\ ~inflight[c].done
    /\ inflight' =
         [inflight EXCEPT ![c].done = TRUE,
                          ![c].out = Stamp(inflight[c].meta,
                                           inflight[c].signal,
                                           get_params(Self))]
    /\ last' = [op |-> "transform in flight", call |-> c]
    /\ UNCHANGED <<cfg, derived, PRNU, DSNU, column_offset_FPN, steps,
                   step_outputs, fitted, rng, reflectance>>

\* fit is called once, before any transform call is made.
FitBeforeCalls ==
    /\ ~fitted
    /\ \A c \in TransformCalls : inflight[c] = NotCalled
    /\ Fit

ConcurrentNext ==
    \/ FitBeforeCalls
    \/ \E c \in TransformCalls : TransformBegin(c)
    \/ \E c \in TransformCalls : TransformStage(c)
    \/ \E c \in TransformCalls : TransformReturn(c)

\* A sensor constructed with non-zero noise factors and without the
\* spatial stage, with or without store_steps.
ConcurrentInit ==
    /\ Init
    /\ <<cfg.prnu_factor, cfg.dark_factor, cfg.offset_factor>> = <<10, 10, 1>>
    /\ ~cfg.apply_spatial_resampling

ConcurrentSpec == ConcurrentInit /\ [][ConcurrentNext]_vars

(* C23 *)

\* A value without the identities of the samples drawn while computing it.
WithoutDraws(signal) ==
    [signal EXCEPT !.hist =
        [i \in DOMAIN @ |-> [@[i] EXCEPT !.draws = <<>>]]]

\* The identities of the samples held as fixed patterns.
HeldSamples ==
    {v.id : v \in {x \in {PRNU, DSNU, column_offset_FPN} : x.kind = "array"}}

\* A call that has returned holds the value a transform call running on
\* its own computes from the same input, computed from samples no other
\* call's value was computed from.
OwnResult(c) ==
    (inflight[c].done /\ inflight[c].err = "") =>
        \E alone \in {transform(Self, inflight[c].arg, 0).out},
           mine \in {DrawsOf(inflight[c].out.hist)} :
            /\ WithoutDraws(inflight[c].out) = WithoutDraws(alone)
            /\ Cardinality(mine) = Cardinality(StochasticFns)
            /\ mine \cap HeldSamples = {}
            /\ \A d \in TransformCalls \ {c} :
                   (inflight[d].done /\ inflight[d].err = "") =>
                       mine \cap DrawsOf(inflight[d].out.hist) = {}

\* C23: no step of a transform call in flight, under any interleaving with
\* the steps of the other calls, modifies DSNU, PRNU, the column offset or
\* the stage list, and each call returns the result determined by its own
\* input and its own random draws.
C23_ConcurrentTransformsOnlyRead ==
    /\ [][ inflight' # inflight =>
            UNCHANGED <<DSNU, PRNU, column_offset_FPN, steps>> ]_vars
    /\ [](\A c \in TransformCalls : OwnResult(c))

\* Both calls have returned, and their stage executions were interleaved:
\* the samples of neither were all drawn before the other's.
C23_Witness ==
    /\ \A c \in TransformCalls : inflight[c].done /\ inflight[c].err = ""
    /\ inflight[1].arg # inflight[2].arg
    /\ \E a, b \in DrawsOf(inflight[1].out.hist) :
           \E m \in DrawsOf(inflight[2].out.hist) : a < m /\ m < b


-----------------------------------------------------------------------------
(* C24 *)

\* A fit call that returns.
FitSucceeds == Fit /\ last'.err = ""

\* Runs of construction, successful fit, update_derived_params and
\* transform only.
SuccessfulFitNext == FitSucceeds \/ UpdateDerivedParams \/ Transform

SuccessfulFitSpec == Init /\ [][SuccessfulFitNext]_vars

\* C24: whenever the model is fitted, in a run of construction, successful
\* fit, update_derived_params and transform, the prnu, dsnu and offset
\* parameters of the stages are the fixed patterns the instance holds in
\* PRNU, DSNU and column_offset_FPN, and none of them is None.
C24_FittedStagesHoldTheHeldFPN ==
    fitted =>
        /\ StepFPN(steps) = HeldFPN
        /\ None \notin {PRNU, DSNU, column_offset_FPN}
        /\ None \notin {StepFPN(steps).prnu, StepFPN(steps).dsnu,
                        StepFPN(steps).offset}

\* The model was fitted twice with sampled patterns and its derived
\* parameters were then updated.
C24_Witness ==
    /\ fitted
    /\ last.op = "update_derived_params"
    /\ rng >= 6
    /\ \A v \in {PRNU, DSNU, column_offset_FPN} : v.kind = "array"


(* C25 *)

\* C25: a fit call that raises leaves the model as it was before the call:
\* the fitted flag, DSNU, PRNU and the column offset held by the instance
\* and the fixed patterns in the stage parameters are unchanged, so held and
\* stage patterns that agreed before the call still agree after it.
C25_FailedFitLeavesModelUnchanged ==
    [][ (last'.op = "fit" /\ last'.err # "") =>
          /\ UNCHANGED <<fitted, DSNU, PRNU, column_offset_FPN>>
          /\ StepFPN(steps') = StepFPN(steps)
          /\ (StepFPN(steps) = HeldFPN => StepFPN(steps') = HeldFPN') ]_vars


-----------------------------------------------------------------------------
(* C26 *)

\* sensor.apply_spatial_resampling = v: the switch is an instance attribute
\* that _set_steps reads when the stage list is next rebuilt.
SetApplySpatialResampling ==
    \E v \in BOOLEAN :
        /\ v # cfg.apply_spatial_resampling
        /\ \E res \in {Result([Self EXCEPT !.cfg.apply_spatial_resampling = v],
                                rng, "", NoSignal, <<>>)} :
               Commit(res) /\ last' = Call("setattr", NoSignal, NoKey, res)

StoreStepsNext ==
    \/ Fit
    \/ Transform
    \/ UpdateDerivedParams
    \/ SetApplySpatialResampling

\* A sensor constructed with store_steps=True, with all noise factors zero
\* or all non-zero.
StoreStepsInit ==
    /\ Init
    /\ <<cfg.prnu_factor, cfg.dark_factor, cfg.offset_factor>>
           \in {<<0, 0, 0>>, <<10, 10, 1>>}
    /\ cfg.store_steps

StoreStepsSpec == StoreStepsInit /\ [][StoreStepsNext]_vars

\* C26: with store_steps on, after a transform that returned, step_outputs
\* has exactly one entry per stage of the current stage list, under the
\* stage's name, holding the output the stage produced during that call,
\* and no entry for a stage that is not in the current list.
C26_StepOutputsMatchCurrentStages ==
    (Returned("transform") /\ cfg.store_steps) =>
        /\ DOMAIN step_outputs = {steps[i].name : i \in DOMAIN steps}
        /\ \A i \in DOMAIN steps :
               step_outputs[steps[i].name] = last.trace[i].out


-----------------------------------------------------------------------------
(* Post processing (pyeosim/post.py) *)

\* The arrays passed to apply_downsampling and sensor_correction_experiment:
\* a band image as the spectral response transform returns it (with the
\* band_name coordinate), a band image without that coordinate, and a
\* hyperspectral image.
BandImage ==
    [dims |-> <<"band", "y", "x">>, coords |-> {"wavelength", "band_name"},
     attrs |-> [k \in {"res"} |-> AttrStr("2m")], hist |-> <<>>]
BandImageWithoutNames ==
    [dims |-> <<"band", "y", "x">>, coords |-> {"wavelength"},
     attrs |-> EmptyAttrs, hist |-> <<>>]
HyperspectralImage ==
    [dims |-> <<"wavelength", "y", "x">>, coords |-> {},
     attrs |-> [k \in {"res"} |-> AttrStr("2m")], hist |-> <<>>]

\* <<arr, spectral>> as passed to apply_downsampling: the spectral step is
\* asked for on arrays that have the wavelength dimension.
DownsamplingArgs ==
    {<<BandImage, FALSE>>, <<BandImageWithoutNames, FALSE>>,
     <<HyperspectralImage, FALSE>>, <<HyperspectralImage, TRUE>>}

\* sensor.spectral_response.transform(arr, normalise) of an array with the
\* wavelength dimension: wavelength is integrated away and the bands are
\* concatenated along a new leading dimension band, with band_name.
spectral_response_transform(arr, normalise, r) ==
    Ret([dims |-> <<"band">> \o SelectSeq(arr.dims, LAMBDA d : d # "wavelength"),
         coords |-> (arr.coords \ {"wavelength"}) \cup {"band_name"},
         attrs |-> arr.attrs,
         hist |-> Append(arr.hist, [fn |-> "_SRF.transform",
                                    params |-> [normalise |-> normalise],
                                    draws |-> <<>>])], r)

\* f(arr, a, b) for the stage function f taken from the stage list: the two
\* values are bound to the function's second and third parameter.
PositionalCall(fn, arr, a, b, r) ==
    CASE fn = "gaussian_isotropic" ->
            gaussian_isotropic(arr, [psf_fwhm |-> a,
                                     ground_sample_distance |-> b], r)
      [] fn = "radiance_to_irradiance_2" ->
            radiance_to_irradiance_2(arr, [lens_diameter |-> a,
                                           focal_length |-> b], r)

\* The function apply_downsampling would call if it named the resampling
\* function itself.
SpatialFunction_gaussian(s) == "gaussian_isotropic"

\* sensor.steps[1][1]: the function of the second stage of the list.
SpatialFunction(s) == s.steps[2].fn

\* apply_downsampling(arr, sensor, spatial, spectral, normalise)
apply_downsampling(arr, s, spatial, spectral, normalise, r) ==
    LET a == IF spectral
             THEN spectral_response_transform(arr, normalise, r)
             ELSE Ret(arr, r)
        b == IF spatial
             THEN PositionalCall(SpatialFunction(s), a.out, s.cfg.psf_fwhm,
                                 s.cfg.ground_sample_distance, a.rng)
             ELSE a
    IN  IF b.err # ""
        THEN Result(s, b.rng, b.err, NoSignal, <<>>)
        ELSE Result(s, b.rng, "", b.out, <<>>)

\* The value sensor_correction_experiment returns: per band, the slope and
\* intercept of the regression of L_s on dn (both restricted to the mask
\* when one is given); and the value of a call that raised.
Coefficients(L_s, dn, masked) == [L_s |-> L_s, dn |-> dn, masked |-> masked]
NoCoefficients == Coefficients(NoSignal, NoSignal, FALSE)

\* sensor_correction_experiment as it would be if it ran the experiment on
\* a copy of the sensor it is given.
sensor_correction_experiment_on_copy(toa_radiance, s, masked, r) ==
    Only({ IF f.err # ""
           THEN Result(s, f.rng, f.err, NoCoefficients, f.trace)
           ELSE Only({ IF L.err # ""
                       THEN Result(s, L.rng, L.err, NoCoefficients, f.trace)
                       ELSE IF "band_name" \notin Names(f.out)
                       THEN Result(s, L.rng, "AttributeError",
                                   NoCoefficients, f.trace)
                       ELSE Result(s, L.rng, "",
                                   Coefficients(L.out, f.out, masked), f.trace)
                       : L \in {apply_downsampling(toa_radiance, f.self, TRUE,
                                                   FALSE, FALSE, f.rng)} })
           : f \in {fit_transform(s, toa_radiance, r)} })

\* sensor_correction_experiment(toa_radiance, sensor, mask):
\* dn = sensor.fit_transform(toa_radiance), then L_s = apply_downsampling(
\* toa_radiance, sensor, spatial=True, spectral=False), then the loop over
\* dn.band_name and the regressions.
sensor_correction_experiment(toa_radiance, s, masked, r) ==
    Only({ IF f.err # ""
           THEN Result(f.self, f.rng, f.err, NoCoefficients, f.trace)
           ELSE Only({ IF L.err # ""
                       THEN Result(f.self, L.rng, L.err, NoCoefficients, f.trace)
                       ELSE IF "band_name" \notin Names(f.out)
                       THEN Result(f.self, L.rng, "AttributeError",
                                   NoCoefficients, f.trace)
                       ELSE Result(f.self, L.rng, "",
                                   Coefficients(L.out, f.out, masked), f.trace)
                       : L \in {apply_downsampling(toa_radiance, f.self, TRUE,
                                                   FALSE, FALSE, f.rng)} })
           : f \in {fit_transform(s, toa_radiance, r)} })

ApplyDownsampling ==
    \E args \in DownsamplingArgs, spatial \in BOOLEAN, normalise \in BOOLEAN :
        \E res \in {apply_downsampling(args[1], Self, spatial, args[2],
                                        normalise, rng)} :
            /\ Commit(res)
            /\ last' = [op |-> "apply_downsampling", arg |-> args[1],
                        spatial |-> spatial, spectral |-> args[2],
                        normalise |-> normalise, err |-> res.err,
                        out |-> res.out]

SensorCorrectionExperiment ==
    \E toa_radiance \in {BandImage, BandImageWithoutNames}, masked \in BOOLEAN :
        /\ rng + 6 <= MaxDraws
        /\ \E res \in {sensor_correction_experiment(toa_radiance, Self,
                                                     masked, rng)} :
              /\ Commit(res)
              /\ last' = [op |-> "sensor_correction_experiment",
                          arg |-> toa_radiance, err |-> res.err,
                          out |-> res.out, held_before |-> HeldFPN,
                          rng_before |-> rng]

PostNext ==
    \/ Fit
    \/ Transform
    \/ ApplyDownsampling
    \/ SensorCorrectionExperiment

PostSpec == Init /\ [][PostNext]_vars

(* C27 *)

\* C27: apply_downsampling with spatial=True on a fitted sensor, when it
\* returns, has applied gaussian_isotropic with the sensor's psf_fwhm and
\* ground_sample_distance to the array, whether the sensor was configured
\* with apply_spatial_resampling True or False.
C27_SpatialDownsamplingIsGaussian ==
    (Returned("apply_downsampling") /\ last.spatial /\ fitted) =>
        /\ last.out.hist # <<>>
        /\ last.out.hist[Len(last.out.hist)] =
               [fn |-> "gaussian_isotropic",
                params |-> [psf_fwhm |-> cfg.psf_fwhm,
                            ground_sample_distance |->
                                cfg.ground_sample_distance],
                draws |-> <<>>]


(* C29 *)

\* C29: when sensor_correction_experiment returns, the sensor it was given
\* is fitted and holds the fixed patterns assigned during the experiment
\* (for a non-zero noise factor an array sampled during the call, not the
\* one held before; the number 0 for a zero factor), they are the patterns
\* in its stage list and the ones the DN image behind the returned
\* coefficients was computed with; and a transform that follows uses these
\* same patterns.
C29_ExperimentRefitsTheSensor ==
    /\ [](Returned("sensor_correction_experiment") =>
            /\ fitted
            /\ FreshOrZero(cfg.dark_factor, last.held_before.dsnu, DSNU,
                           last.rng_before)
            /\ FreshOrZero(cfg.prnu_factor, last.held_before.prnu, PRNU,
                           last.rng_before)
            /\ FreshOrZero(cfg.offset_factor, last.held_before.offset,
                           column_offset_FPN, last.rng_before)
            /\ StepFPN(steps) = HeldFPN
            /\ StepFPN(last.out.dn.hist) = HeldFPN)
    /\ [][ (Returned("sensor_correction_experiment")
              /\ last'.op = "transform" /\ last'.err = "") =>
             StepFPN(last'.out.hist) = StepFPN(last.out.dn.hist) ]_vars

\* An experiment on a sensor that had been fitted before returned, and the
\* column offset it left is an array other than the one held before.
C29_Witness ==
    /\ Returned("sensor_correction_experiment")
    /\ last.held_before.offset.kind = "array"
    /\ column_offset_FPN.kind = "array"
    /\ column_offset_FPN # last.held_before.offset


-----------------------------------------------------------------------------
(* C28 *)

\* band_QE(SRFs, quantum_efficiency): the band coordinate of the result is
\* np.arange(len(SRFs)), one value per response function in the order of
\* SRFs.values().  The result is given as the name of the response function
\* each coordinate value stands for.
band_QE(SRFs) ==
    [band \in {i - 1 : i \in DOMAIN SRFs} |-> SRFs[band + 1].name]

\* SixSV_atmosphere.fit(srf): the coefficient arrays a, b and
\* filter_integral_micron have the band coordinate np.arange(len(_srfs)),
\* one value per entry of srf.to_6sv(), which follows srf.srfs.items().
SixSV_coefs(SRFs) ==
    [band \in {i - 1 : i \in DOMAIN SRFs} |-> SRFs[band + 1].name]

\* C28: the integer band coordinate of each band in the result of the
\* spectral response transform stands for the same band in the result of
\* band_QE and in the atmosphere coefficient arrays, for every input signal.
C28_BandIndexNamesTheSameBand ==
    (last.op = "_SRF.transform" /\ last.err = "") =>
        \A i \in DOMAIN last.out :
            /\ last.band[i] \in DOMAIN band_QE(Bands)
            /\ band_QE(Bands)[last.band[i]] = last.out[i]
            /\ SixSV_coefs(Bands)[last.band[i]] = last.out[i]


-----------------------------------------------------------------------------
(* C30 *)

\* C30: once CmosReflectance.fit has returned, in every later state the
\* dark-region sensor and the image sensor have the same column offset in
\* their stage lists, also after the image sensor is fitted again directly.
C30_DarkAndImageSensorShareColumnOffset ==
    (reflectance.fitted /\ reflectance.cls = "CmosReflectance") =>
        StepFPN(reflectance.dark_cmos_sensor.steps).offset
            = StepFPN(steps).offset

====
